---- MODULE Spec2Model ----
(***************************************************************************)
(* Deal reconciliation engine of the OpenSea monitoring bot                *)
(* (telegram_bot_aiogram_fixed.py, run_top_collections_once.py).           *)
(*                                                                         *)
(* Number representation.  Python floats are modelled as fixed-point       *)
(* integers:                                                               *)
(*   USD prices           in 1/1000 dollar,                                *)
(*   ETH floor / offer    in 1/100000 ETH,                                 *)
(*   difference percent   in 1/1000 percent.                               *)
(* An Optional value is a sequence of length 0 (None) or 1 (the value).    *)
(* price_max = float("inf") is the empty sequence, a finite bound <<v>>.   *)
(***************************************************************************)
EXTENDS Integers, Sequences, FiniteSets, TLC

None == <<>>

Some(v) == <<v>>

IsNone(o) == Len(o) = 0

Val(o) == o[1]

(***************************************************************************)
(* Bounds of the model.                                                    *)
(***************************************************************************)
MaxDeals == 2

MaxMsgId == 2

MaxFilterDeals == 2

\* most lines of cursor.txt
MaxCursorLines == 10

\* most menu messages sent
MaxMenuId == 3

(***************************************************************************)
(* Constants of the program.                                               *)
(***************************************************************************)
MAX_PAGES_CODE == 2

\* run_top_collections_once: the default of NUM_PAGES, the value given to
\* asyncio.Semaphore and the limit its comment states
NUM_PAGES == 30

SEMAPHORE_LIMIT == 30

STATED_LIMIT == 10

(***************************************************************************)
(* run_top_collections_once.calculate_difference                           *)
(***************************************************************************)
calculate_difference(floor_eth, offer_eth) ==
    IF IsNone(floor_eth) \/ IsNone(offer_eth) THEN None
    ELSE IF Val(floor_eth) = 0 THEN None
    ELSE Some(((Val(floor_eth) - Val(offer_eth)) * 100000) \div Val(floor_eth))

(***************************************************************************)
(* The dict fetch_deals.process builds for one raw item.                   *)
(* name and slug are Optional strings; a missing or empty value is falsy.  *)
(***************************************************************************)
Falsy(o) == IsNone(o) \/ Val(o) = ""

MakeDeal(name, slug, usd_floor, eth_floor, eth_offer) ==
    [collection |-> IF ~Falsy(name) THEN Val(name)
                    ELSE IF ~Falsy(slug) THEN Val(slug)
                    ELSE "Unknown Collection",
     slug |-> slug,
     price |-> usd_floor,
     list |-> eth_floor,
     offer |-> eth_offer,
     difference_percent |-> calculate_difference(eth_floor, eth_offer),
     link |-> IF ~Falsy(slug) THEN Some(<<"https://opensea.io/collection/", Val(slug)>>)
              ELSE None]

(***************************************************************************)
(* filter_deals: the per-item test, then a stable ascending sort by        *)
(* difference_percent (list.sort is stable).                               *)
(***************************************************************************)
SlugOrEmpty(d) == IF Falsy(d.slug) THEN "" ELSE Val(d.slug)

PriceAbove(price, price_max) == ~IsNone(price_max) /\ price > Val(price_max)

\* a missing price is taken for a price of 0
KeepDeal_NoneAsZero(d, price_min, price_max, diff_max, excluded) ==
    LET price == IF IsNone(d.price) THEN 0 ELSE Val(d.price)
    IN /\ SlugOrEmpty(d) \notin excluded
       /\ ~IsNone(d.difference_percent)
       /\ ~(price < price_min \/ PriceAbove(price, price_max))
       /\ ~(Val(d.difference_percent) > diff_max)

\* the upper price bound is exclusive
KeepDeal_ExclusiveMax(d, price_min, price_max, diff_max, excluded) ==
    /\ SlugOrEmpty(d) \notin excluded
    /\ ~IsNone(d.price)
    /\ ~IsNone(d.difference_percent)
    /\ ~(Val(d.price) < price_min \/ PriceAbove(Val(d.price) + 1, price_max))
    /\ ~(Val(d.difference_percent) > diff_max)

KeepDeal(d, price_min, price_max, diff_max, excluded) ==
    /\ SlugOrEmpty(d) \notin excluded
    /\ ~IsNone(d.price)
    /\ ~IsNone(d.difference_percent)
    /\ ~(Val(d.price) < price_min \/ PriceAbove(Val(d.price), price_max))
    /\ ~(Val(d.difference_percent) > diff_max)

\* an item is put before the items that have its spread
RECURSIVE InsertSorted_BeforeEqual(_, _)
InsertSorted_BeforeEqual(sorted, d) ==
    IF sorted = <<>> THEN <<d>>
    ELSE LET last == sorted[Len(sorted)]
         IN IF Val(last.difference_percent) < Val(d.difference_percent)
            THEN Append(sorted, d)
            ELSE Append(InsertSorted_BeforeEqual(SubSeq(sorted, 1, Len(sorted) - 1), d), last)

RECURSIVE InsertSorted(_, _)
InsertSorted(sorted, d) ==
    IF sorted = <<>> THEN <<d>>
    ELSE LET last == sorted[Len(sorted)]
         IN IF Val(last.difference_percent) <= Val(d.difference_percent)
            THEN Append(sorted, d)
            ELSE Append(InsertSorted(SubSeq(sorted, 1, Len(sorted) - 1), d), last)

RECURSIVE StableSort(_)
StableSort(s) ==
    IF s = <<>> THEN <<>>
    ELSE InsertSorted(StableSort(SubSeq(s, 1, Len(s) - 1)), s[Len(s)])

RECURSIVE SelectKept(_, _, _, _, _)
SelectKept(deals, price_min, price_max, diff_max, excluded) ==
    IF deals = <<>> THEN <<>>
    ELSE LET rest == SelectKept(Tail(deals), price_min, price_max, diff_max, excluded)
         IN IF KeepDeal(Head(deals), price_min, price_max, diff_max, excluded)
            THEN <<Head(deals)>> \o rest
            ELSE rest

filter_deals(deals, price_min, price_max, diff_max, excluded) ==
    StableSort(SelectKept(deals, price_min, price_max, diff_max, excluded))

(***************************************************************************)
(* format_deal.  f"{x:.2f}" of a price and f"{x:.4f}" of an ETH amount     *)
(* drop the last fixed-point digit, f"{x:.2f}" of a percentage drops one   *)
(* digit too; rounding is half-to-even on the magnitude and the sign is    *)
(* kept (Python prints -0.00).  The text is the tuple of its parts.        *)
(***************************************************************************)
RoundHalfEven(n, m) ==
    LET q == n \div m
        r == n % m
    IN IF 2 * r < m THEN q
       ELSE IF 2 * r > m THEN q + 1
       ELSE IF q % 2 = 0 THEN q ELSE q + 1

FormatFixed(o, m) ==
    IF IsNone(o) THEN <<"?">>
    ELSE IF Val(o) < 0 THEN <<"-", RoundHalfEven(0 - Val(o), m)>>
    ELSE <<"", RoundHalfEven(Val(o), m)>>

format_deal(deal) ==
    [title |-> IF ~IsNone(deal.link) THEN <<Val(deal.link), deal.collection>>
               ELSE <<deal.collection>>,
     price_str |-> FormatFixed(deal.price, 10),
     floor_str |-> FormatFixed(deal.list, 10),
     offer_str |-> FormatFixed(deal.offer, 10),
     diff_str |-> FormatFixed(deal.difference_percent, 10)]

(***************************************************************************)
(* Subscribers, identities and the data the fetch can return.              *)
(***************************************************************************)
Users == {1, 2}

\* the users that talk to the bot in Spec
Subscribers == {1}

ADMIN_IDS == {1}

\* Raw items of the data source, as fetch_deals.process maps them.
\* collection a, $1.000, spread 1 %
DealBase == MakeDeal(Some("a"), Some("a"), Some(1000), Some(10000), Some(9900))

\* the same with $1.004: renders as the same text
DealSameText == MakeDeal(Some("a"), Some("a"), Some(1004), Some(10000), Some(9900))

\* collection b, spread 2 %
DealOther == MakeDeal(Some("b"), Some("b"), Some(2000), Some(10000), Some(9800))

\* an item without slug whose name is a: tracked under the key a too, and
\* rendered without link
DealNoSlug == MakeDeal(Some("a"), None, Some(1000), Some(10000), Some(9900))

LoopDeals == {DealBase, DealSameText, DealOther, DealNoSlug}

SeqsUpTo(S, n) == UNION {[1..k -> S] : k \in 0..n}

Snapshots == SeqsUpTo(LoopDeals, MaxDeals)

\* Values the price, spread and exclusion commands are given.
ExcludeArgs == {"a"}

(***************************************************************************)
(* State.                                                                  *)
(***************************************************************************)
VARIABLES
    allowed_users,       \* set of user ids
    user_settings,       \* uid -> config, for the uids that have one
    settings_order,      \* the uids of user_settings in dict (insertion) order
    user_deal_messages,  \* uid -> (key -> message id)
    last_deal_data,      \* uid -> (key -> deal)
    last_deal_text,      \* uid -> (key -> text)
    monitor_task,        \* "None" or "task"
    live_tasks,          \* number of global_monitor_loop tasks created and not ended
    pc,                  \* where global_monitor_loop is
    active_users,        \* loop local: list of uids of this cycle
    max_pages,           \* loop local: depth of the fetch of this cycle
    raw_deals,           \* loop local: result of the fetch
    ui,                  \* loop local: position in active_users
    current_deals,       \* loop local: list of [key, deal], keys distinct
    del_keys,            \* loop local: keys the delete loop has not visited
    ci,                  \* loop local: position in current_deals
    updated,             \* loop local
    pending,             \* the sink call the loop is suspended in
    next_id,             \* next message id the chat surface hands out
    ops,                 \* history: sink calls of the current pass, in order
    pre,                 \* history: display state and filter input at pass start
    last_in,             \* history: uid -> the pass of the previous cycle
    delete_count,        \* history: message id -> number of delete calls
    handle_log,          \* history, kept where on: created: uid -> key -> id of the last
                         \* message sent; spent: ids whose delete returned or edit failed
    op_text,             \* history: uid -> (key -> text of the last send or edit call)
    fetch_log,           \* history: depths of the fetch_deals calls of the current cycle
    start_pages,         \* history: uid -> pages, for the subscribers active at cycle start
    fetch_ok,            \* history: the fetch of the current cycle did not raise
    raw_page,            \* history: the page each item of raw_deals came from
    passed,              \* history: the uids whose pass of the current cycle is complete
    admin_settings,      \* the admin settings: [max_pages]
    last_msg,            \* history: the text message handled last, with the awaiting state it met
    db_settings,         \* the table user_settings of the database: user_id -> row
    menu_messages,       \* uid -> id of the menu message recorded for the uid
    menu_call,           \* task -> where its refresh_menu_for_user call is, with its uid and old_id
    menu_chat,           \* the ids of the menu messages that were sent and not deleted
    menu_next,           \* next message id the chat hands out for a menu message
    fetch_prog,          \* a fetch on its own: "bot" (fetch_deals), "script" (main) or "off"
    fetch_pc,            \* where that fetch is
    fetch_pages,         \* the number of pages it requests
    tasks,               \* page -> "new", "flight", "ok" or "failed"
    aggregated,          \* the joined page results, once gathered
    output_json,         \* what output.json holds
    f_pc, f_deals, f_cfg, f_out  \* filter_deals applied to drawn inputs

loopVars ==
    <<active_users, max_pages, raw_deals, ui, current_deals, del_keys, ci, updated, pending>>

displayVars == <<user_deal_messages, last_deal_data, last_deal_text>>

cycleHist == <<fetch_log, start_pages, fetch_ok, raw_page, passed>>

histVars == <<ops, pre, last_in, delete_count, handle_log, op_text, cycleHist>>

filterVars == <<f_pc, f_deals, f_cfg, f_out>>

fetchVars == <<fetch_prog, fetch_pc, fetch_pages, tasks, aggregated, output_json>>

\* what the loop and the handlers of the configuration leave alone
inputVars == <<admin_settings, last_msg>>

\* refresh_menu_for_user on its own
menuVars == <<menu_messages, menu_call, menu_chat, menu_next>>

sideVars == <<filterVars, fetchVars, inputVars, db_settings, menuVars>>

vars ==
    <<allowed_users, user_settings, settings_order, user_deal_messages,
      last_deal_data, last_deal_text, monitor_task, pc, active_users, raw_deals, ui,
      current_deals, del_keys, ci, updated, pending, next_id, ops, pre,
      last_in, delete_count, handle_log, op_text, f_pc, f_deals, f_cfg, f_out, live_tasks,
      max_pages, fetch_log, start_pages, fetch_ok, raw_page, passed, last_msg,
      admin_settings, db_settings, menu_messages, menu_call, menu_chat, menu_next,
      fetch_prog, fetch_pc, fetch_pages, tasks, aggregated, output_json>>

EmptyMap == <<>>

NoPass == <<>>

NoPending == <<>>

\* dict helpers
Has(m, k) == k \in DOMAIN m

Put(m, k, v) == [x \in DOMAIN m \cup {k} |-> IF x = k THEN v ELSE m[x]]

Pop(m, k) == [x \in DOMAIN m \ {k} |-> m[x]]

\* The loop is suspended in an await (or not running): handlers can run.
YieldPcs == {"idle", "start", "fetch", "del_wait", "send_wait", "edit_wait",
             "menu", "sleep"}

CanHandle == pc \in YieldPcs

DefaultSettings ==
    [pages |-> 1, price_min |-> 0, price_max |-> None, diff_max |-> 2000,
     excluded |-> {}, monitoring |-> FALSE, awaiting |-> None]

ensure_user_settings(settings, uid) ==
    IF Has(settings, uid) THEN settings ELSE Put(settings, uid, DefaultSettings)

\* list(cfg["excluded"]): the elements of the set in some order
ListOf(S) ==
    CHOOSE l \in [1..Cardinality(S) -> S] : \A e \in S : \E i \in 1..Cardinality(S) : l[i] = e

\* the row persist_user_settings writes for a configuration: the excluded set
\* as the list json.dumps is given, monitoring as int(cfg["monitoring"]); the
\* awaiting state is in no column
RowOf(cfg) ==
    [pages |-> cfg.pages, price_min |-> cfg.price_min, price_max |-> cfg.price_max,
     diff_max |-> cfg.diff_max, excluded |-> ListOf(cfg.excluded),
     monitoring |-> IF cfg.monitoring THEN 1 ELSE 0]

\* INSERT OR REPLACE of the row of user_id
persist_user_settings(db, settings, user_id) == Put(db, user_id, RowOf(settings[user_id]))

\* persist_user_settings(u) for each u of S
PersistEach(db, settings, S) ==
    [u \in DOMAIN db \cup S |-> IF u \in S THEN RowOf(settings[u]) ELSE db[u]]

\* what ensure_user_settings writes: the row of the configuration it creates
ensure_persisted(db, settings, uid) ==
    IF Has(settings, uid) THEN db
    ELSE persist_user_settings(db, ensure_user_settings(settings, uid), uid)

\* the configuration the process loads from a row when it starts
ConfigOfRow(row) ==
    [pages |-> row.pages, price_min |-> row.price_min, price_max |-> row.price_max,
     diff_max |-> row.diff_max,
     excluded |-> {row.excluded[i] : i \in 1..Len(row.excluded)},
     monitoring |-> row.monitoring # 0, awaiting |-> None]

\* a new key goes to the end of the dict
OrderAfterEnsure(uid) ==
    IF Has(user_settings, uid) THEN settings_order ELSE Append(settings_order, uid)

\* the tasks that call refresh_menu_for_user: the loop and a handler
MenuTasks == {"loop", "handler"}

NoCall == [pc |-> "idle", uid |-> 0, old_id |-> None]

\* everything of the initial state but the loaded settings
StateInit ==
    /\ menu_messages = EmptyMap
    /\ menu_call = [t \in MenuTasks |-> NoCall]
    /\ menu_chat = {}
    /\ menu_next = 1
    /\ allowed_users = Users
    /\ user_deal_messages = EmptyMap
    /\ last_deal_data = EmptyMap
    /\ last_deal_text = EmptyMap
    /\ monitor_task = "None"
    /\ pc = "idle"
    /\ active_users = <<>>
    /\ raw_deals = <<>>
    /\ ui = 0
    /\ current_deals = <<>>
    /\ del_keys = {}
    /\ ci = 0
    /\ updated = FALSE
    /\ pending = NoPending
    /\ next_id = 1
    /\ ops = <<>>
    /\ pre = <<>>
    /\ last_in = [u \in Users |-> NoPass]
    /\ delete_count = [h \in 1..MaxMsgId |-> 0]
    /\ op_text = [u \in Users |-> EmptyMap]
    /\ live_tasks = 0
    /\ max_pages = 0
    /\ fetch_log = <<>>
    /\ start_pages = EmptyMap
    /\ fetch_ok = TRUE
    /\ raw_page = <<>>
    /\ passed = {}

\* the database has no user_settings rows
LoopInit ==
    /\ StateInit
    /\ user_settings = EmptyMap
    /\ settings_order = <<>>
    /\ db_settings = EmptyMap

FilterOff ==
    /\ f_pc = "off"
    /\ f_deals = <<>>
    /\ f_cfg = <<>>
    /\ f_out = <<>>

NoMsg == <<>>

HandleLog(on) == [on |-> on, created |-> [u \in Users |-> EmptyMap], spent |-> {}]

LogOff == handle_log = HandleLog(FALSE)

\* the database holds no admin_settings row: max_pages = MAX_PAGES_CODE
InputOff ==
    /\ last_msg = NoMsg
    /\ admin_settings = [max_pages |-> MAX_PAGES_CODE]

FetchOff ==
    /\ fetch_prog = "off"
    /\ fetch_pc = "off"
    /\ fetch_pages = 0
    /\ tasks = <<>>
    /\ aggregated = <<>>
    /\ output_json = <<>>

Init == LoopInit /\ FilterOff /\ InputOff /\ FetchOff /\ LogOff

(***************************************************************************)
(* global_monitor_loop.  One action per stretch of code between awaits;    *)
(* pc values outside YieldPcs are positions inside such a stretch, where   *)
(* no other task can run.                                                  *)
(***************************************************************************)
\* only the slug is a key
KeyOf_SlugOnly(d) ==
    IF ~Falsy(d.slug) THEN Some(Val(d.slug)) ELSE None

\* key = d.get("slug") or d.get("link") or d.get("collection")
KeyOf(d) ==
    IF ~Falsy(d.slug) THEN Some(Val(d.slug))
    ELSE IF ~IsNone(d.link) THEN Some(Val(d.link))
    ELSE Some(d.collection)

\* a new key is put in front of the others
RECURSIVE BuildCurrent_Prepend(_, _)
BuildCurrent_Prepend(acc, deals) ==
    IF deals = <<>> THEN acc
    ELSE LET d == Head(deals)
             k == KeyOf(d)
         IN IF \E i \in 1..Len(acc) : acc[i].key = Val(k)
            THEN BuildCurrent_Prepend(
                     [i \in 1..Len(acc) |->
                         IF acc[i].key = Val(k) THEN [key |-> Val(k), deal |-> d]
                         ELSE acc[i]],
                     Tail(deals))
            ELSE BuildCurrent_Prepend(<<[key |-> Val(k), deal |-> d]>> \o acc, Tail(deals))

\* current_deals[str(key)] = d over the filtered list: a dict keeps the
\* position of a key's first insertion and the value of its last one.
RECURSIVE BuildCurrent(_, _)
BuildCurrent(acc, deals) ==
    IF deals = <<>> THEN acc
    ELSE LET d == Head(deals)
             k == KeyOf(d)
         IN IF IsNone(k) THEN BuildCurrent(acc, Tail(deals))
            ELSE IF \E i \in 1..Len(acc) : acc[i].key = Val(k)
            THEN BuildCurrent(
                     [i \in 1..Len(acc) |->
                         IF acc[i].key = Val(k) THEN [key |-> Val(k), deal |-> d]
                         ELSE acc[i]],
                     Tail(deals))
            ELSE BuildCurrent(Append(acc, [key |-> Val(k), deal |-> d]), Tail(deals))

CurrentKeys == {current_deals[i].key : i \in 1..Len(current_deals)}

Uid == active_users[ui]

FilterParams(cfg) ==
    [price_min |-> cfg.price_min, price_max |-> cfg.price_max,
     diff_max |-> cfg.diff_max, excluded |-> cfg.excluded]

ActiveSet == {u \in DOMAIN user_settings : user_settings[u].monitoring}

\* [uid for uid, cfg in user_settings.items() if cfg.get("monitoring")]
RECURSIVE ActiveList(_)
ActiveList(order) ==
    IF order = <<>> THEN <<>>
    ELSE IF user_settings[Head(order)].monitoring
         THEN <<Head(order)>> \o ActiveList(Tail(order))
         ELSE ActiveList(Tail(order))

MaxOf(S) == CHOOSE m \in S : \A x \in S : x <= m

\* the fetch depth is the pages value of the first active subscriber
LoopTop_FirstPages ==
    /\ pc \in {"start", "sleep"}
    /\ IF ActiveSet = {}
       THEN /\ monitor_task' = "None"
            /\ live_tasks' = live_tasks - 1
            /\ pc' = "idle"
            /\ user_deal_messages' = EmptyMap
            /\ last_deal_data' =
                   [u \in DOMAIN last_deal_data \ DOMAIN user_deal_messages |->
                       last_deal_data[u]]
            /\ last_deal_text' =
                   [u \in DOMAIN last_deal_text \ DOMAIN user_deal_messages |->
                       last_deal_text[u]]
            /\ active_users' = <<>>
            /\ max_pages' = 0
            /\ raw_deals' = <<>>
            /\ last_in' = [u \in Users |-> NoPass]
            /\ op_text' = [u \in Users |-> EmptyMap]
            /\ fetch_log' = <<>>
            /\ start_pages' = EmptyMap
            /\ raw_page' = <<>>
       ELSE /\ active_users' = ActiveList(settings_order)
            /\ max_pages' = user_settings[ActiveList(settings_order)[1]].pages
            /\ pc' = "fetch"
            /\ last_in' = [u \in Users |-> IF u \in ActiveSet THEN last_in[u] ELSE NoPass]
            /\ fetch_log' = <<max_pages'>>
            /\ start_pages' = [u \in ActiveSet |-> user_settings[u].pages]
            /\ UNCHANGED <<monitor_task, live_tasks, displayVars, raw_deals, op_text,
                           raw_page>>
    /\ fetch_ok' = TRUE
    /\ passed' = {}
    /\ ui' = 0
    /\ current_deals' = <<>>
    /\ del_keys' = {}
    /\ ci' = 0
    /\ updated' = FALSE
    /\ pending' = NoPending
    /\ ops' = <<>>
    /\ pre' = <<>>
    /\ UNCHANGED <<allowed_users, user_settings, settings_order, next_id, delete_count, handle_log,
                   sideVars>>

\* while True: active_users = ...; if not active_users: monitor_task = None;
\* break, then the cleanup after the loop and the end of the task.  Otherwise
\* max_pages = max(pages of the active) and the call of fetch_deals(max_pages).
LoopTop ==
    /\ pc \in {"start", "sleep"}
    /\ IF ActiveSet = {}
       THEN /\ monitor_task' = "None"
            /\ live_tasks' = live_tasks - 1
            /\ pc' = "idle"
            /\ user_deal_messages' = EmptyMap
            /\ last_deal_data' =
                   [u \in DOMAIN last_deal_data \ DOMAIN user_deal_messages |->
                       last_deal_data[u]]
            /\ last_deal_text' =
                   [u \in DOMAIN last_deal_text \ DOMAIN user_deal_messages |->
                       last_deal_text[u]]
            /\ active_users' = <<>>
            /\ max_pages' = 0
            /\ raw_deals' = <<>>
            /\ last_in' = [u \in Users |-> NoPass]
            /\ op_text' = [u \in Users |-> EmptyMap]
            /\ fetch_log' = <<>>
            /\ start_pages' = EmptyMap
            /\ raw_page' = <<>>
       ELSE /\ active_users' = ActiveList(settings_order)
            /\ max_pages' = MaxOf({user_settings[u].pages : u \in ActiveSet})
            /\ pc' = "fetch"
            /\ last_in' = [u \in Users |-> IF u \in ActiveSet THEN last_in[u] ELSE NoPass]
            /\ fetch_log' = <<max_pages'>>
            /\ start_pages' = [u \in ActiveSet |-> user_settings[u].pages]
            /\ UNCHANGED <<monitor_task, live_tasks, displayVars, raw_deals, op_text,
                           raw_page>>
    /\ fetch_ok' = TRUE
    /\ passed' = {}
    /\ ui' = 0
    /\ current_deals' = <<>>
    /\ del_keys' = {}
    /\ ci' = 0
    /\ updated' = FALSE
    /\ pending' = NoPending
    /\ ops' = <<>>
    /\ pre' = <<>>
    /\ UNCHANGED <<allowed_users, user_settings, settings_order, next_id, delete_count, handle_log,
                   sideVars>>

AfterFetch(deals) ==
    /\ raw_deals' = deals
    /\ ui' = 1
    /\ pc' = "user"
    /\ pre' = [same_raw |-> deals = raw_deals]
    /\ UNCHANGED <<allowed_users, user_settings, settings_order, displayVars, monitor_task,
                   live_tasks, active_users, max_pages, current_deals, del_keys, ci,
                   updated, pending, next_id, ops, last_in, delete_count, handle_log, op_text,
                   fetch_log, start_pages, passed, sideVars>>

\* fetch_deals(pages): one request per page i in range(pages), a request that
\* raises gives [], and the pages are joined in page order
RECURSIVE fetch_deals(_)
fetch_deals(results) ==
    IF results = <<>> THEN <<>>
    ELSE fetch_deals(SubSeq(results, 1, Len(results) - 1)) \o results[Len(results)]

RECURSIVE PageOfItems(_)
PageOfItems(results) ==
    IF results = <<>> THEN <<>>
    ELSE PageOfItems(SubSeq(results, 1, Len(results) - 1))
             \o [i \in 1..Len(results[Len(results)]) |-> Len(results)]

\* the exception of the fetch leaves the loop
FetchFail_Escapes ==
    /\ pc = "fetch"
    /\ pc' = "crashed"
    /\ live_tasks' = live_tasks - 1
    /\ fetch_ok' = FALSE
    /\ UNCHANGED <<allowed_users, user_settings, settings_order, displayVars, monitor_task,
                   loopVars, next_id, ops, pre, last_in, delete_count, handle_log, op_text,
                   fetch_log, start_pages, raw_page, passed, sideVars>>

\* raw_deals = await fetch_deals(max_pages); feed is what one page can return
FetchOk(feed) ==
    /\ pc = "fetch"
    /\ \E results \in [1..max_pages -> feed] :
          /\ AfterFetch(fetch_deals(results))
          /\ raw_page' = PageOfItems(results)
    /\ fetch_ok' = TRUE

\* except Exception: raw_deals = []
FetchFail ==
    /\ pc = "fetch"
    /\ AfterFetch(<<>>)
    /\ raw_page' = <<>>
    /\ fetch_ok' = FALSE

\* variant: the filter is given the default bounds and no exclusions
BeginUser_IgnoresConfig ==
    /\ pc = "user"
    /\ ui <= Len(active_users)
    /\ Has(user_settings, Uid)
    /\ LET uid == Uid
           cfg == user_settings[uid]
           deals == filter_deals(raw_deals, DefaultSettings.price_min,
                                 DefaultSettings.price_max, DefaultSettings.diff_max,
                                 DefaultSettings.excluded)
           msgs == IF Has(user_deal_messages, uid) THEN user_deal_messages[uid]
                   ELSE EmptyMap
           data == IF Has(last_deal_data, uid) THEN last_deal_data[uid] ELSE EmptyMap
           text == IF Has(last_deal_text, uid) THEN last_deal_text[uid] ELSE EmptyMap
       IN /\ current_deals' = BuildCurrent(<<>>, deals)
          /\ user_deal_messages' = Put(user_deal_messages, uid, msgs)
          /\ last_deal_data' = Put(last_deal_data, uid, data)
          /\ last_deal_text' = Put(last_deal_text, uid, text)
          /\ del_keys' = DOMAIN msgs
          /\ pre' = [same_raw |-> pre.same_raw,
                     params |-> FilterParams(cfg),
                     pages |-> cfg.pages,
                     msgs |-> msgs, data |-> data, text |-> text,
                     prev |-> last_in[uid]]
          /\ last_in' = [last_in EXCEPT ![uid] = NoPass]
    /\ updated' = FALSE
    /\ ops' = <<>>
    /\ ci' = 0
    /\ pc' = "del"
    /\ UNCHANGED <<allowed_users, user_settings, settings_order, monitor_task, live_tasks,
                   active_users, max_pages, raw_deals, ui, pending, next_id,
                   delete_count, handle_log, op_text, cycleHist, sideVars>>

\* for uid in active_users: filter, build current_deals, ensure the state dicts
BeginUser ==
    /\ pc = "user"
    /\ ui <= Len(active_users)
    /\ Has(user_settings, Uid)
    /\ LET uid == Uid
           cfg == user_settings[uid]
           deals == filter_deals(raw_deals, cfg.price_min, cfg.price_max,
                                 cfg.diff_max, cfg.excluded)
           msgs == IF Has(user_deal_messages, uid) THEN user_deal_messages[uid]
                   ELSE EmptyMap
           data == IF Has(last_deal_data, uid) THEN last_deal_data[uid] ELSE EmptyMap
           text == IF Has(last_deal_text, uid) THEN last_deal_text[uid] ELSE EmptyMap
       IN /\ current_deals' = BuildCurrent(<<>>, deals)
          /\ user_deal_messages' = Put(user_deal_messages, uid, msgs)
          /\ last_deal_data' = Put(last_deal_data, uid, data)
          /\ last_deal_text' = Put(last_deal_text, uid, text)
          /\ del_keys' = DOMAIN msgs
          /\ pre' = [same_raw |-> pre.same_raw,
                     params |-> FilterParams(cfg),
                     pages |-> cfg.pages,
                     msgs |-> msgs, data |-> data, text |-> text,
                     prev |-> last_in[uid]]
          /\ last_in' = [last_in EXCEPT ![uid] = NoPass]
    /\ updated' = FALSE
    /\ ops' = <<>>
    /\ ci' = 0
    /\ pc' = "del"
    /\ UNCHANGED <<allowed_users, user_settings, settings_order, monitor_task, live_tasks,
                   active_users, max_pages, raw_deals, ui, pending, next_id,
                   delete_count, handle_log, op_text, cycleHist, sideVars>>

\* cfg = user_settings[uid] for a uid whose entry was popped since the cycle
\* began: the KeyError is raised outside every try and ends the task;
\* monitor_task keeps the ended task
LoopKeyError ==
    /\ pc = "user"
    /\ ui <= Len(active_users)
    /\ ~Has(user_settings, Uid)
    /\ pc' = "crashed"
    /\ live_tasks' = live_tasks - 1
    /\ UNCHANGED <<allowed_users, user_settings, settings_order, displayVars, monitor_task,
                   loopVars, next_id, histVars, sideVars>>

\* the for loop over active_users is exhausted: await asyncio.sleep(1)
EndCycle ==
    /\ pc = "user"
    /\ ui > Len(active_users)
    /\ pc' = "sleep"
    /\ UNCHANGED <<allowed_users, user_settings, settings_order, displayVars, monitor_task,
                   live_tasks, active_users, max_pages, raw_deals, ui, current_deals,
                   del_keys, ci, updated, pending, next_id, histVars, sideVars>>

\* the history of the message ids, where it is kept
LogCreated(key, id) ==
    IF handle_log.on THEN [handle_log EXCEPT !.created[Uid] = Put(@, key, id)]
    ELSE handle_log

LogSpent(id) ==
    IF handle_log.on THEN [handle_log EXCEPT !.spent = @ \cup {id}] ELSE handle_log

Op(kind, key, handle, text, ok) ==
    [chat |-> Uid, kind |-> kind, key |-> key, handle |-> handle, text |-> text,
     ok |-> ok]

NoText == <<>>

\* the history across passes (last_in, op_text) is kept for the subscribers of
\* Subscribers
TextCalled(key, text) ==
    IF Uid \in Subscribers THEN [op_text EXCEPT ![Uid] = Put(@, key, text)] ELSE op_text

TextDropped(key) ==
    IF Uid \in Subscribers THEN [op_text EXCEPT ![Uid] = Pop(@, key)] ELSE op_text

loopFrame ==
    <<allowed_users, user_settings, settings_order, monitor_task, live_tasks,
      active_users, max_pages, raw_deals, ui, current_deals, cycleHist, sideVars>>

\* for key in list(user_deal_messages[uid].keys()): a key that is still current
\* is passed over
DeleteSkip ==
    /\ pc = "del"
    /\ \E key \in del_keys :
          /\ key \in CurrentKeys
          /\ del_keys' = del_keys \ {key}
    /\ UNCHANGED <<loopFrame, displayVars, pc, ci, updated, pending, next_id, histVars>>

\* the test "key not in current_deals" is missing
DeleteCall_AnyKey ==
    /\ pc = "del"
    /\ \E key \in del_keys :
          /\ del_keys' = del_keys \ {key}
          /\ pending' = [key |-> key, message_id |-> user_deal_messages[Uid][key]]
          /\ user_deal_messages' =
                 [user_deal_messages EXCEPT ![Uid] = Pop(user_deal_messages[Uid], key)]
          /\ delete_count' =
                 [delete_count EXCEPT ![user_deal_messages[Uid][key]] = @ + 1]
    /\ pc' = "del_wait"
    /\ UNCHANGED <<loopFrame, last_deal_data, last_deal_text, ci, updated, next_id,
                   ops, pre, last_in, op_text, handle_log>>

\* message_id = user_deal_messages[uid].pop(key); await bot.delete_message(...)
DeleteCall ==
    /\ pc = "del"
    /\ \E key \in del_keys :
          /\ key \notin CurrentKeys
          /\ del_keys' = del_keys \ {key}
          /\ pending' = [key |-> key, message_id |-> user_deal_messages[Uid][key]]
          /\ user_deal_messages' =
                 [user_deal_messages EXCEPT ![Uid] = Pop(user_deal_messages[Uid], key)]
          /\ delete_count' =
                 [delete_count EXCEPT ![user_deal_messages[Uid][key]] = @ + 1]
    /\ pc' = "del_wait"
    /\ UNCHANGED <<loopFrame, last_deal_data, last_deal_text, ci, updated, next_id,
                   ops, pre, last_in, op_text, handle_log>>

\* the stored data and text are dropped only when the delete succeeded
AfterDelete_KeepOnFail(ok) ==
    /\ updated' = (IF ok THEN TRUE ELSE updated)
    /\ IF ok
       THEN /\ last_deal_data' =
                   [last_deal_data EXCEPT ![Uid] = Pop(last_deal_data[Uid], pending.key)]
            /\ last_deal_text' =
                   [last_deal_text EXCEPT ![Uid] = Pop(last_deal_text[Uid], pending.key)]
       ELSE UNCHANGED <<last_deal_data, last_deal_text>>
    /\ ops' = Append(ops, Op("delete", pending.key, pending.message_id, NoText, ok))
    /\ pending' = NoPending
    /\ pc' = "del"
    /\ op_text' = TextDropped(pending.key)
    /\ UNCHANGED <<loopFrame, user_deal_messages, del_keys, ci, next_id, pre, last_in,
                   delete_count>>
    /\ handle_log' = LogSpent(pending.message_id)

\* the stored data and text of the key are dropped for every subscriber
AfterDelete_EverySubscriber(ok) ==
    /\ updated' = (IF ok THEN TRUE ELSE updated)
    /\ last_deal_data' = [u \in DOMAIN last_deal_data |-> Pop(last_deal_data[u], pending.key)]
    /\ last_deal_text' = [u \in DOMAIN last_deal_text |-> Pop(last_deal_text[u], pending.key)]
    /\ ops' = Append(ops, Op("delete", pending.key, pending.message_id, NoText, ok))
    /\ pending' = NoPending
    /\ pc' = "del"
    /\ op_text' = TextDropped(pending.key)
    /\ UNCHANGED <<loopFrame, user_deal_messages, del_keys, ci, next_id, pre, last_in,
                   delete_count>>
    /\ handle_log' = LogSpent(pending.message_id)

\* the delete returned or raised; then last_deal_data / last_deal_text pop
AfterDelete(ok) ==
    /\ updated' = (IF ok THEN TRUE ELSE updated)
    /\ last_deal_data' = [last_deal_data EXCEPT ![Uid] = Pop(last_deal_data[Uid], pending.key)]
    /\ last_deal_text' = [last_deal_text EXCEPT ![Uid] = Pop(last_deal_text[Uid], pending.key)]
    /\ ops' = Append(ops, Op("delete", pending.key, pending.message_id, NoText, ok))
    /\ pending' = NoPending
    /\ pc' = "del"
    /\ op_text' = TextDropped(pending.key)
    /\ UNCHANGED <<loopFrame, user_deal_messages, del_keys, ci, next_id, pre, last_in,
                   delete_count>>
    /\ handle_log' = LogSpent(pending.message_id)

DeleteOk ==
    /\ pc = "del_wait"
    /\ AfterDelete(TRUE)

DeleteFail ==
    /\ pc = "del_wait"
    /\ AfterDelete(FALSE)

\* the delete loop is exhausted: for key, deal in current_deals.items()
DeleteDone ==
    /\ pc = "del"
    /\ del_keys = {}
    /\ ci' = 1
    /\ pc' = "proc"
    /\ UNCHANGED <<loopFrame, displayVars, del_keys, updated, pending, next_id, histVars>>

CurKey == current_deals[ci].key

CurDeal == current_deals[ci].deal

\* prev_text = last_deal_text[uid].get(key)
PrevText(uid, key) ==
    IF Has(last_deal_text[uid], key) THEN Some(last_deal_text[uid][key]) ELSE None

\* key not in user_deal_messages[uid]: await bot.send_message(...)
SendCall ==
    /\ pc = "proc"
    /\ ci <= Len(current_deals)
    /\ ~Has(user_deal_messages[Uid], CurKey)
    /\ pending' = [key |-> CurKey, text |-> format_deal(CurDeal)]
    /\ pc' = "send_wait"
    /\ UNCHANGED <<loopFrame, displayVars, del_keys, ci, updated, next_id, histVars>>

\* the text remembered for the new message lacks the price
SendOk_TextNotStored ==
    /\ pc = "send_wait"
    /\ next_id <= MaxMsgId
    /\ user_deal_messages' =
           [user_deal_messages EXCEPT ![Uid] = Put(@, pending.key, next_id)]
    /\ last_deal_data' = [last_deal_data EXCEPT ![Uid] = Put(@, pending.key, CurDeal)]
    /\ last_deal_text' =
           [last_deal_text EXCEPT ![Uid] =
               Put(@, pending.key, format_deal([CurDeal EXCEPT !.price = None]))]
    /\ updated' = TRUE
    /\ next_id' = next_id + 1
    /\ ops' = Append(ops, Op("send", pending.key, next_id, pending.text, TRUE))
    /\ pending' = NoPending
    /\ ci' = ci + 1
    /\ pc' = "proc"
    /\ op_text' = TextCalled(pending.key, pending.text)
    /\ UNCHANGED <<loopFrame, del_keys, pre, last_in, delete_count>>
    /\ handle_log' = LogCreated(pending.key, next_id)

\* sent arrived: the three dicts get the entry
SendOk ==
    /\ pc = "send_wait"
    /\ next_id <= MaxMsgId
    /\ user_deal_messages' =
           [user_deal_messages EXCEPT ![Uid] = Put(@, pending.key, next_id)]
    /\ last_deal_data' = [last_deal_data EXCEPT ![Uid] = Put(@, pending.key, CurDeal)]
    /\ last_deal_text' = [last_deal_text EXCEPT ![Uid] = Put(@, pending.key, pending.text)]
    /\ updated' = TRUE
    /\ next_id' = next_id + 1
    /\ ops' = Append(ops, Op("send", pending.key, next_id, pending.text, TRUE))
    /\ pending' = NoPending
    /\ ci' = ci + 1
    /\ pc' = "proc"
    /\ op_text' = TextCalled(pending.key, pending.text)
    /\ UNCHANGED <<loopFrame, del_keys, pre, last_in, delete_count>>
    /\ handle_log' = LogCreated(pending.key, next_id)

\* variant: the exception of send_message is caught nowhere and ends the task
SendFail_Escapes ==
    /\ pc = "send_wait"
    /\ ops' = Append(ops, Op("send", pending.key, 0, pending.text, FALSE))
    /\ pending' = NoPending
    /\ pc' = "crashed"
    /\ live_tasks' = live_tasks - 1
    /\ op_text' = TextCalled(pending.key, pending.text)
    /\ UNCHANGED <<allowed_users, user_settings, settings_order, displayVars,
                   monitor_task, active_users, max_pages, raw_deals, ui, current_deals,
                   sideVars, del_keys, ci, updated, next_id, pre, last_in, delete_count, handle_log,
                   cycleHist>>

\* send_message raised: nothing is stored
SendFail ==
    /\ pc = "send_wait"
    /\ ops' = Append(ops, Op("send", pending.key, 0, pending.text, FALSE))
    /\ pending' = NoPending
    /\ ci' = ci + 1
    /\ pc' = "proc"
    /\ op_text' = TextCalled(pending.key, pending.text)
    /\ UNCHANGED <<loopFrame, displayVars, del_keys, updated, next_id, pre, last_in,
                   delete_count, handle_log>>

\* existing deal, prev_text == text: continue
ProcSkip ==
    /\ pc = "proc"
    /\ ci <= Len(current_deals)
    /\ Has(user_deal_messages[Uid], CurKey)
    /\ PrevText(Uid, CurKey) = Some(format_deal(CurDeal))
    /\ ci' = ci + 1
    /\ UNCHANGED <<loopFrame, displayVars, pc, del_keys, updated, pending, next_id,
                   histVars>>

\* the change test compares the stored deal, not the stored text
EditCall_OnDataChange ==
    /\ pc = "proc"
    /\ ci <= Len(current_deals)
    /\ Has(user_deal_messages[Uid], CurKey)
    /\ last_deal_data[Uid][CurKey] # CurDeal
    /\ pending' = [key |-> CurKey, text |-> format_deal(CurDeal),
                   message_id |-> user_deal_messages[Uid][CurKey]]
    /\ pc' = "edit_wait"
    /\ UNCHANGED <<loopFrame, displayVars, del_keys, ci, updated, next_id, histVars>>

\* existing deal, text changed: await bot.edit_message_text(...)
EditCall ==
    /\ pc = "proc"
    /\ ci <= Len(current_deals)
    /\ Has(user_deal_messages[Uid], CurKey)
    /\ PrevText(Uid, CurKey) # Some(format_deal(CurDeal))
    /\ pending' = [key |-> CurKey, text |-> format_deal(CurDeal),
                   message_id |-> user_deal_messages[Uid][CurKey]]
    /\ pc' = "edit_wait"
    /\ UNCHANGED <<loopFrame, displayVars, del_keys, ci, updated, next_id, histVars>>

\* the edited text and deal are not remembered
EditOk_TextNotStored ==
    /\ pc = "edit_wait"
    /\ updated' = TRUE
    /\ ops' = Append(ops, Op("edit", pending.key, pending.message_id, pending.text, TRUE))
    /\ pending' = NoPending
    /\ ci' = ci + 1
    /\ pc' = "proc"
    /\ op_text' = TextCalled(pending.key, pending.text)
    /\ UNCHANGED <<loopFrame, displayVars, del_keys, next_id, pre, last_in,
                   delete_count, handle_log>>

EditOk ==
    /\ pc = "edit_wait"
    /\ last_deal_data' = [last_deal_data EXCEPT ![Uid] = Put(@, pending.key, CurDeal)]
    /\ last_deal_text' = [last_deal_text EXCEPT ![Uid] = Put(@, pending.key, pending.text)]
    /\ updated' = TRUE
    /\ ops' = Append(ops, Op("edit", pending.key, pending.message_id, pending.text, TRUE))
    /\ pending' = NoPending
    /\ ci' = ci + 1
    /\ pc' = "proc"
    /\ op_text' = TextCalled(pending.key, pending.text)
    /\ UNCHANGED <<loopFrame, user_deal_messages, del_keys, next_id, pre, last_in,
                   delete_count, handle_log>>

\* the message id stays in user_deal_messages after a failed edit
EditFail_KeepsEntry ==
    /\ pc = "edit_wait"
    /\ last_deal_data' = [last_deal_data EXCEPT ![Uid] = Pop(@, pending.key)]
    /\ last_deal_text' = [last_deal_text EXCEPT ![Uid] = Pop(@, pending.key)]
    /\ ops' = Append(ops, Op("edit", pending.key, pending.message_id, pending.text, FALSE))
    /\ pending' = NoPending
    /\ ci' = ci + 1
    /\ pc' = "proc"
    /\ op_text' = TextCalled(pending.key, pending.text)
    /\ UNCHANGED <<loopFrame, user_deal_messages, del_keys, updated, next_id, pre,
                   last_in, delete_count>>
    /\ handle_log' = LogSpent(pending.message_id)

\* edit_message_text raised: the entry is popped from the three dicts
EditFail ==
    /\ pc = "edit_wait"
    /\ user_deal_messages' = [user_deal_messages EXCEPT ![Uid] = Pop(@, pending.key)]
    /\ last_deal_data' = [last_deal_data EXCEPT ![Uid] = Pop(@, pending.key)]
    /\ last_deal_text' = [last_deal_text EXCEPT ![Uid] = Pop(@, pending.key)]
    /\ ops' = Append(ops, Op("edit", pending.key, pending.message_id, pending.text, FALSE))
    /\ pending' = NoPending
    /\ ci' = ci + 1
    /\ pc' = "proc"
    /\ op_text' = TextCalled(pending.key, pending.text)
    /\ UNCHANGED <<loopFrame, del_keys, updated, next_id, pre, last_in, delete_count>>
    /\ handle_log' = LogSpent(pending.message_id)

\* current_deals is exhausted: if updated: await refresh_menu_for_user(bot, uid),
\* whose build_main_menu(uid) begins with ensure_user_settings(uid)
ProcDone ==
    /\ pc = "proc"
    /\ ci > Len(current_deals)
    /\ pc' = (IF updated THEN "menu" ELSE "end")
    /\ user_settings' =
           (IF updated THEN ensure_user_settings(user_settings, Uid) ELSE user_settings)
    /\ settings_order' = (IF updated THEN OrderAfterEnsure(Uid) ELSE settings_order)
    /\ db_settings' =
           (IF updated THEN ensure_persisted(db_settings, user_settings, Uid)
            ELSE db_settings)
    /\ UNCHANGED <<allowed_users, monitor_task, live_tasks, active_users, max_pages,
                   raw_deals, ui, current_deals, filterVars, menuVars, fetchVars, inputVars,
                   displayVars, del_keys, ci, updated, pending, next_id, histVars>>

\* refresh_menu_for_user returned or raised (except Exception: pass); its
\* steps are those of SpecMenu
MenuReturn ==
    /\ pc = "menu"
    /\ pc' = "end"
    /\ UNCHANGED <<loopFrame, displayVars, del_keys, ci, updated, pending, next_id,
                   histVars>>

AllOk(log) == \A i \in 1..Len(log) : log[i].ok

FailedKeys(log) == {log[i].key : i \in {j \in 1..Len(log) : log[j].kind # "delete" /\ ~log[j].ok}}

\* the pass of this subscriber is complete: next uid
EndPass ==
    /\ pc = "end"
    /\ last_in' = IF Uid \in Subscribers
                  THEN [last_in EXCEPT ![Uid] =
                           Some([params |-> pre.params, failed |-> FailedKeys(ops)])]
                  ELSE last_in
    /\ passed' = passed \cup {Uid}
    /\ ui' = ui + 1
    /\ pc' = "user"
    /\ current_deals' = <<>>
    /\ ci' = 0
    /\ updated' = FALSE
    /\ ops' = <<>>
    /\ pre' = [same_raw |-> pre.same_raw]
    /\ UNCHANGED <<allowed_users, user_settings, settings_order, displayVars, monitor_task,
                   live_tasks, active_users, max_pages, raw_deals, del_keys, pending,
                   next_id, delete_count, handle_log, op_text, fetch_log, start_pages, fetch_ok,
                   raw_page, sideVars>>

(***************************************************************************)
(* Handlers.  Each changes the configuration before its first await, so    *)
(* the change is one step; a handler runs only while the loop is suspended.*)
(***************************************************************************)
\* start_monitoring and stop_monitoring are taken up to their await of
\* send_or_update_panel, with bot_instance set as main() sets it; a stop of a
\* subscriber that is not monitoring changes nothing and is left out.
handlerFrame ==
    <<allowed_users, displayVars, loopVars, next_id, histVars, filterVars, menuVars, fetchVars,
      inputVars>>

\* the task is created whether or not monitor_task holds one
start_monitoring_NoTaskTest(uid) ==
    /\ CanHandle
    /\ uid \in allowed_users
    /\ LET settings == ensure_user_settings(user_settings, uid)
       IN /\ ~settings[uid].monitoring
          /\ user_settings' = [settings EXCEPT ![uid].monitoring = TRUE]
    /\ db_settings' =
           persist_user_settings(ensure_persisted(db_settings, user_settings, uid),
                                 user_settings', uid)
    /\ settings_order' = OrderAfterEnsure(uid)
    /\ monitor_task' = "task"
    /\ live_tasks' = live_tasks + 1
    /\ pc' = "start"
    /\ UNCHANGED handlerFrame

start_monitoring(uid) ==
    /\ CanHandle
    /\ uid \in allowed_users
    /\ LET settings == ensure_user_settings(user_settings, uid)
       IN /\ ~settings[uid].monitoring
          /\ user_settings' = [settings EXCEPT ![uid].monitoring = TRUE]
    /\ db_settings' =
           persist_user_settings(ensure_persisted(db_settings, user_settings, uid),
                                 user_settings', uid)
    /\ settings_order' = OrderAfterEnsure(uid)
    /\ IF monitor_task = "None"
       THEN monitor_task' = "task" /\ live_tasks' = live_tasks + 1 /\ pc' = "start"
       ELSE UNCHANGED <<monitor_task, live_tasks, pc>>
    /\ UNCHANGED handlerFrame

\* variant: the stop also takes the subscriber out of the cycle in progress
stop_monitoring_DropsFromCycle(uid) ==
    /\ CanHandle
    /\ uid \in allowed_users
    /\ Has(user_settings, uid)
    /\ user_settings[uid].monitoring
    /\ user_settings' = [user_settings EXCEPT ![uid].monitoring = FALSE]
    /\ db_settings' = persist_user_settings(db_settings, user_settings', uid)
    /\ active_users' =
           IF \E i \in 1..Len(active_users) : active_users[i] = uid /\ i > ui
           THEN SelectSeq(active_users, LAMBDA u : u # uid)
           ELSE active_users
    /\ UNCHANGED <<allowed_users, displayVars, max_pages, raw_deals, ui, current_deals,
                   del_keys, ci, updated, pending, next_id, histVars, filterVars, menuVars,
                   fetchVars, inputVars, settings_order, monitor_task, live_tasks, pc>>

stop_monitoring(uid) ==
    /\ CanHandle
    /\ uid \in allowed_users
    /\ Has(user_settings, uid)
    /\ user_settings[uid].monitoring
    /\ user_settings' = [user_settings EXCEPT ![uid].monitoring = FALSE]
    /\ db_settings' = persist_user_settings(db_settings, user_settings', uid)
    /\ UNCHANGED <<handlerFrame, settings_order, monitor_task, live_tasks, pc>>

\* /exclude add without the persist_user_settings call
handle_exclude_add_NotPersisted(uid, slug) ==
    /\ CanHandle
    /\ uid \in allowed_users
    /\ user_settings' =
           [ensure_user_settings(user_settings, uid) EXCEPT ![uid].excluded = @ \union {slug}]
    /\ db_settings' = ensure_persisted(db_settings, user_settings, uid)
    /\ settings_order' = OrderAfterEnsure(uid)
    /\ UNCHANGED <<handlerFrame, monitor_task, live_tasks, pc>>

handle_exclude_add(uid, slug) ==
    /\ CanHandle
    /\ uid \in allowed_users
    /\ user_settings' =
           [ensure_user_settings(user_settings, uid) EXCEPT ![uid].excluded = @ \cup {slug}]
    /\ db_settings' =
           persist_user_settings(ensure_persisted(db_settings, user_settings, uid),
                                 user_settings', uid)
    /\ settings_order' = OrderAfterEnsure(uid)
    /\ UNCHANGED <<handlerFrame, monitor_task, live_tasks, pc>>

handle_exclude_clear(uid) ==
    /\ CanHandle
    /\ uid \in allowed_users
    /\ user_settings' =
           [ensure_user_settings(user_settings, uid) EXCEPT ![uid].excluded = {}]
    /\ db_settings' =
           persist_user_settings(ensure_persisted(db_settings, user_settings, uid),
                                 user_settings', uid)
    /\ settings_order' = OrderAfterEnsure(uid)
    /\ UNCHANGED <<handlerFrame, monitor_task, live_tasks, pc>>

\* /pages <N>: n = max(1, min(n, admin_settings['max_pages']))
handle_pages_cmd(uid, n) ==
    /\ CanHandle
    /\ uid \in allowed_users
    /\ LET m == IF n < admin_settings.max_pages THEN n ELSE admin_settings.max_pages
           clamped == IF m > 1 THEN m ELSE 1
       IN user_settings' =
              [ensure_user_settings(user_settings, uid) EXCEPT ![uid].pages = clamped]
    /\ db_settings' =
           persist_user_settings(ensure_persisted(db_settings, user_settings, uid),
                                 user_settings', uid)
    /\ settings_order' = OrderAfterEnsure(uid)
    /\ UNCHANGED <<handlerFrame, monitor_task, live_tasks, pc>>

\* /removeuser <id> by an admin: allowed_users.discard(rem_id);
\* user_settings.pop(rem_id, None); stop_monitoring(rem_id) then finds no config
\* and returns.  The display state of rem_id is left as it is.
handle_removeuser_cmd(uid, rem_id) ==
    /\ CanHandle
    /\ uid \in ADMIN_IDS
    /\ rem_id \notin ADMIN_IDS
    /\ allowed_users' = allowed_users \ {rem_id}
    /\ user_settings' = Pop(user_settings, rem_id)
    /\ settings_order' = SelectSeq(settings_order, LAMBDA u : u # rem_id)
    /\ db_settings' = Pop(db_settings, rem_id)
    /\ UNCHANGED <<displayVars, loopVars, next_id, histVars, filterVars, menuVars, fetchVars,
                   inputVars,
                   monitor_task, live_tasks, pc>>

StartMonitoring(U) == \E uid \in U : start_monitoring(uid)

StopMonitoring(U) == \E uid \in U : stop_monitoring(uid)

ExcludeAdd(U) == \E uid \in U, slug \in ExcludeArgs : handle_exclude_add(uid, slug)

ExcludeClear(U) == \E uid \in U : handle_exclude_clear(uid)

PagesArgs == {0, 1, 2, 3}

PagesCmd(U) == \E uid \in U, n \in PagesArgs : handle_pages_cmd(uid, n)

RemoveUser(U) == \E uid \in U, rem_id \in U : handle_removeuser_cmd(uid, rem_id)

\* An argument of /price and /diff after float(arg.replace(",", ".")): None
\* when float raises ValueError, else the value (prices in 1/1000 $, the spread
\* in 1/1000 %).
\* what a command handler was given, kept where the texts are kept (last_msg)
\* once a first message is kept there
CmdSeen(handler, uid, args) ==
    IF last_msg = NoMsg THEN last_msg
    ELSE [handler |-> handler, uid |-> uid,
          state |-> IF Has(user_settings, uid) THEN user_settings[uid].awaiting ELSE None,
          text |-> [raw |-> handler, cmd |-> TRUE, nums |-> args, int |-> None,
                    clear |-> FALSE, url |-> None]]

cmdFrame ==
    <<allowed_users, displayVars, loopVars, next_id, histVars, filterVars, menuVars, fetchVars,
      admin_settings, monitor_task, live_tasks, pc>>

\* price_min and price_max as /price and the price input store them: a maximum
\* <= 0 is stored as float('inf')
StorePrice(cfg, min_val, max_val) ==
    [cfg EXCEPT !.price_min = min_val,
                !.price_max = IF max_val <= 0 THEN None ELSE Some(max_val)]

\* /price without the test of the minimum
handle_price_cmd_NegativeStored(uid, args) ==
    /\ CanHandle
    /\ uid \in allowed_users
    /\ LET settings == ensure_user_settings(user_settings, uid)
           rows == ensure_persisted(db_settings, user_settings, uid)
           rejected ==
                     \/ Len(args) < 2
                     \/ IsNone(args[1])
                     \/ IsNone(args[2])
       IN IF rejected
          THEN user_settings' = settings /\ db_settings' = rows
          ELSE /\ user_settings' =
                      [settings EXCEPT ![uid] = StorePrice(@, Val(args[1]), Val(args[2]))]
               /\ db_settings' = persist_user_settings(rows, user_settings', uid)
    /\ settings_order' = OrderAfterEnsure(uid)
    /\ last_msg' = CmdSeen("handle_price_cmd", uid, args)
    /\ UNCHANGED cmdFrame

\* /price <min> <max>: fewer than two arguments, a non-number or a negative
\* minimum is answered with a message and stores nothing; arguments after
\* the second are not looked at
handle_price_cmd(uid, args) ==
    /\ CanHandle
    /\ uid \in allowed_users
    /\ LET settings == ensure_user_settings(user_settings, uid)
           rows == ensure_persisted(db_settings, user_settings, uid)
           rejected ==
                     \/ Len(args) < 2
                     \/ IsNone(args[1])
                     \/ IsNone(args[2])
                     \/ Val(args[1]) < 0
       IN IF rejected
          THEN user_settings' = settings /\ db_settings' = rows
          ELSE /\ user_settings' =
                      [settings EXCEPT ![uid] = StorePrice(@, Val(args[1]), Val(args[2]))]
               /\ db_settings' = persist_user_settings(rows, user_settings', uid)
    /\ settings_order' = OrderAfterEnsure(uid)
    /\ last_msg' = CmdSeen("handle_price_cmd", uid, args)
    /\ UNCHANGED cmdFrame

\* /diff <percent>: no argument, a non-number or a value <= 0 stores nothing
handle_diff_cmd(uid, args) ==
    /\ CanHandle
    /\ uid \in allowed_users
    /\ LET settings == ensure_user_settings(user_settings, uid)
           rows == ensure_persisted(db_settings, user_settings, uid)
           rejected ==
                     \/ Len(args) < 1
                     \/ IsNone(args[1])
                     \/ Val(args[1]) <= 0
       IN IF rejected
          THEN user_settings' = settings /\ db_settings' = rows
          ELSE /\ user_settings' = [settings EXCEPT ![uid].diff_max = Val(args[1])]
               /\ db_settings' = persist_user_settings(rows, user_settings', uid)
    /\ settings_order' = OrderAfterEnsure(uid)
    /\ last_msg' = CmdSeen("handle_diff_cmd", uid, args)
    /\ UNCHANGED cmdFrame

PriceCmd(U, A) == \E uid \in U, args \in A : handle_price_cmd(uid, args)

DiffCmd(U, A) == \E uid \in U, args \in A : handle_diff_cmd(uid, args)

(***************************************************************************)
(* Buttons and free text.  A button stores in cfg["awaiting"] what the     *)
(* next text of the user is to be taken as.  A text is the record of what  *)
(* the handlers compute from it: cmd is text.startswith("/"), nums the     *)
(* float() of each part of text.split() (None where float raises), int     *)
(* the int(text) (None where it raises), clear whether text.lower() is     *)
(* "clear", url the extract_slug(text), raw the stripped text.             *)
(***************************************************************************)
MakeText(raw, cmd, nums, int, clear, url) ==
    [raw |-> raw, cmd |-> cmd, nums |-> nums, int |-> int, clear |-> clear, url |-> url]

TextSlug == MakeText("a", FALSE, <<None>>, None, FALSE, None)

TextUrl == MakeText("opensea.io/collection/a", FALSE, <<None>>, None, FALSE, Some("a"))

TextClear == MakeText("clear", FALSE, <<None>>, None, TRUE, None)

TextOne == MakeText("1", FALSE, <<Some(1000)>>, Some(1), FALSE, None)

TextZero == MakeText("0", FALSE, <<Some(0)>>, Some(0), FALSE, None)

TextMinMax == MakeText("1 2", FALSE, <<Some(1000), Some(2000)>>, None, FALSE, None)

TextMaxMin == MakeText("2 1", FALSE, <<Some(2000), Some(1000)>>, None, FALSE, None)

TextNegMin == MakeText("-1 2", FALSE, <<Some(-1000), Some(2000)>>, None, FALSE, None)

TextThree == MakeText("3", FALSE, <<Some(3000)>>, Some(3), FALSE, None)

TextCommand == MakeText("/help", TRUE, <<None>>, None, FALSE, None)

InputTexts ==
    {TextSlug, TextUrl, TextClear, TextOne, TextZero, TextMinMax, TextMaxMin,
     TextNegMin, TextCommand}

\* float(text.replace(",", ".")) of the whole text
FloatOf(text) == IF Len(text.nums) = 1 THEN text.nums[1] ELSE None

\* user_settings.get(uid, {}).get("awaiting")
AwaitingOf(uid) == IF Has(user_settings, uid) THEN user_settings[uid].awaiting ELSE None

\* max(1, min(n, limit))
Clamp(n, limit) ==
    LET m == IF n < limit THEN n ELSE limit
    IN IF m > 1 THEN m ELSE 1

inputFrame ==
    <<allowed_users, displayVars, loopVars, next_id, histVars, filterVars, menuVars, fetchVars,
      monitor_task, live_tasks, pc>>

\* cb_set_pages, cb_set_price, cb_set_diff, cb_set_excluded: none of them
\* tests allowed_users
cb_set(uid, state) ==
    /\ CanHandle
    /\ user_settings' =
           [ensure_user_settings(user_settings, uid) EXCEPT ![uid].awaiting = Some(state)]
    /\ settings_order' = OrderAfterEnsure(uid)
    /\ db_settings' = ensure_persisted(db_settings, user_settings, uid)
    /\ UNCHANGED <<inputFrame, inputVars>>

\* handle_callbacks with data "admin:maxpages"; user_settings[uid] of a uid
\* without config raises KeyError and nothing is stored
cb_admin_maxpages(uid) ==
    /\ CanHandle
    /\ uid \in allowed_users
    /\ uid \in ADMIN_IDS
    /\ user_settings' =
           IF Has(user_settings, uid)
           THEN [user_settings EXCEPT ![uid].awaiting = Some("admin_max_pages")]
           ELSE user_settings
    /\ UNCHANGED <<inputFrame, inputVars, settings_order, db_settings>>

\* cb_admin_adduser, cb_admin_removeuser, cb_admin_setmaxpages: an admin only;
\* user_settings[uid] of an admin without config raises KeyError
cb_admin_set(uid, state) ==
    /\ CanHandle
    /\ uid \in ADMIN_IDS
    /\ user_settings' =
           IF Has(user_settings, uid)
           THEN [user_settings EXCEPT ![uid].awaiting = Some(state)]
           ELSE user_settings
    /\ UNCHANGED <<inputFrame, inputVars, settings_order, db_settings>>

MsgSeen(handler, uid, text) ==
    [handler |-> handler, uid |-> uid, state |-> AwaitingOf(uid), text |-> text]

\* the try block of handle_awaiting_input for the state: the settings it
\* leaves, or the settings as they are when it raises
AwaitingStored(uid, state, text) ==
    IF state = "pages"
    THEN IF IsNone(text.int) THEN user_settings
         ELSE [user_settings EXCEPT
                  ![uid].pages = Clamp(Val(text.int), admin_settings.max_pages)]
    ELSE IF state = "price"
    THEN IF \/ Len(text.nums) # 2
            \/ \E i \in 1..Len(text.nums) : IsNone(text.nums[i])
            \/ Val(text.nums[1]) < 0
         THEN user_settings
         ELSE [user_settings EXCEPT
                  ![uid] = StorePrice(@, Val(text.nums[1]), Val(text.nums[2]))]
    ELSE IF state = "diff"
    THEN IF IsNone(FloatOf(text)) \/ Val(FloatOf(text)) <= 0 THEN user_settings
         ELSE [user_settings EXCEPT ![uid].diff_max = Val(FloatOf(text))]
    ELSE IF state = "admin_max_pages" /\ ~IsNone(text.int)
    THEN LET val == Clamp(Val(text.int), MAX_PAGES_CODE)
         IN [u \in DOMAIN user_settings |->
                IF user_settings[u].pages > val
                THEN [user_settings[u] EXCEPT !.pages = val]
                ELSE user_settings[u]]
    ELSE user_settings

\* the uids for which the try block calls persist_user_settings: the uid
\* when the input is stored, the uids whose pages are lowered
AwaitingPersisted(uid, state, text) ==
    IF state = "pages"
    THEN IF IsNone(text.int) THEN {} ELSE {uid}
    ELSE IF state = "price"
    THEN IF \/ Len(text.nums) # 2
            \/ \E i \in 1..Len(text.nums) : IsNone(text.nums[i])
            \/ Val(text.nums[1]) < 0
         THEN {} ELSE {uid}
    ELSE IF state = "diff"
    THEN IF IsNone(FloatOf(text)) \/ Val(FloatOf(text)) <= 0 THEN {} ELSE {uid}
    ELSE IF state = "admin_max_pages" /\ ~IsNone(text.int)
    THEN {u \in DOMAIN user_settings :
             user_settings[u].pages > Clamp(Val(text.int), MAX_PAGES_CODE)}
    ELSE {}

\* @router.message() handle_awaiting_input.  It returns with nothing done
\* for a uid that is not allowed or has no awaiting state, for the state
\* admin_max_pages of a uid that is no admin, and for every state other than
\* pages, price, diff and admin_max_pages; else it clears the awaiting state
\* after the try block, whether that raised or not.
handle_awaiting_input(uid, text) ==
    /\ CanHandle
    /\ last_msg' = MsgSeen("handle_awaiting_input", uid, text)
    /\ LET state == AwaitingOf(uid)
       IN IF \/ uid \notin allowed_users
             \/ IsNone(state)
             \/ Val(state) \notin {"pages", "price", "diff", "admin_max_pages"}
             \/ (Val(state) = "admin_max_pages" /\ uid \notin ADMIN_IDS)
          THEN UNCHANGED <<user_settings, admin_settings, db_settings>>
          ELSE /\ user_settings' =
                      [AwaitingStored(uid, Val(state), text) EXCEPT ![uid].awaiting = None]
               /\ db_settings' =
                      PersistEach(db_settings, user_settings',
                                  AwaitingPersisted(uid, Val(state), text))
               /\ admin_settings' =
                      IF Val(state) = "admin_max_pages" /\ ~IsNone(text.int)
                      THEN [max_pages |-> Clamp(Val(text.int), MAX_PAGES_CODE)]
                      ELSE admin_settings
    /\ UNCHANGED <<inputFrame, settings_order>>

\* @router.message() handle_text_auto_exclude.  It returns at once for a
\* uid that is not allowed, for a text that begins with "/" and for a uid
\* whose awaiting state is set, so state is None below the test and none of
\* its branches for a state is entered; what is left is the default:
\* slug = extract_slug(text); if slug: cfg["excluded"].add(slug)
handle_text_auto_exclude(uid, text) ==
    /\ CanHandle
    /\ last_msg' = MsgSeen("handle_text_auto_exclude", uid, text)
    /\ IF uid \notin allowed_users \/ text.cmd \/ ~IsNone(AwaitingOf(uid))
       THEN UNCHANGED <<user_settings, settings_order, db_settings>>
       ELSE /\ user_settings' =
                   IF IsNone(text.url) THEN ensure_user_settings(user_settings, uid)
                   ELSE [ensure_user_settings(user_settings, uid) EXCEPT
                            ![uid].excluded = @ \cup {Val(text.url)}]
            /\ db_settings' =
                   IF IsNone(text.url)
                   THEN ensure_persisted(db_settings, user_settings, uid)
                   ELSE persist_user_settings(
                            ensure_persisted(db_settings, user_settings, uid),
                            user_settings', uid)
            /\ settings_order' = OrderAfterEnsure(uid)
    /\ UNCHANGED <<inputFrame, admin_settings>>

\* /setmaxpages without the loop over user_settings
handle_setmaxpages_cmd_NoLowering(uid, arg) ==
    /\ CanHandle
    /\ LET set == uid \in ADMIN_IDS /\ ~IsNone(arg)
           val == Clamp(Val(arg), MAX_PAGES_CODE)
           lowered == [u \in DOMAIN user_settings |->
                          IF user_settings[u].pages > val
                          THEN [user_settings[u] EXCEPT !.pages = val]
                          ELSE user_settings[u]]
       IN /\ admin_settings' = IF set THEN [max_pages |-> val] ELSE admin_settings
          /\ user_settings' =
                 ensure_user_settings(user_settings, uid)
          /\ db_settings' = ensure_persisted(db_settings, user_settings, uid)
    /\ settings_order' = OrderAfterEnsure(uid)
    /\ UNCHANGED <<inputFrame, last_msg>>

\* /setmaxpages <N>: arg is int(args[0]), None when there is no argument or
\* int raises.  A uid that is no admin, whether allowed or not, is answered
\* and gets its menu again, and so does an admin in every branch;
\* refresh_menu_for_user builds the menu with build_main_menu, which calls
\* ensure_user_settings(uid).
handle_setmaxpages_cmd(uid, arg) ==
    /\ CanHandle
    /\ LET set == uid \in ADMIN_IDS /\ ~IsNone(arg)
           val == Clamp(Val(arg), MAX_PAGES_CODE)
           lowered == [u \in DOMAIN user_settings |->
                          IF user_settings[u].pages > val
                          THEN [user_settings[u] EXCEPT !.pages = val]
                          ELSE user_settings[u]]
       IN /\ admin_settings' = IF set THEN [max_pages |-> val] ELSE admin_settings
          /\ user_settings' =
                 ensure_user_settings(IF set THEN lowered ELSE user_settings, uid)
          /\ db_settings' =
                 ensure_persisted(
                     IF set
                     THEN PersistEach(db_settings, lowered,
                                      {u \in DOMAIN user_settings :
                                           user_settings[u].pages > val})
                     ELSE db_settings,
                     user_settings, uid)
    /\ settings_order' = OrderAfterEnsure(uid)
    /\ UNCHANGED <<inputFrame, last_msg>>

AwaitingStates == {"pages", "price", "diff", "exclude"}

SetMaxPagesArgs == {None, Some(0), Some(1), Some(3)}

SetMaxPagesCmd(U) == \E uid \in U, arg \in SetMaxPagesArgs : handle_setmaxpages_cmd(uid, arg)

CbSet(U) == \E uid \in U, state \in AwaitingStates : cb_set(uid, state)

CbAdminMaxPages(U) == \E uid \in U : cb_admin_maxpages(uid)

AdminAwaitingStates == {"admin_adduser", "admin_removeuser", "admin_setmaxpages"}

CbAdminSet(U) == \E uid \in U, state \in AdminAwaitingStates : cb_admin_set(uid, state)

AwaitingInput(U) == \E uid \in U, text \in InputTexts : handle_awaiting_input(uid, text)

TextAutoExclude(U) ==
    \E uid \in U, text \in InputTexts : handle_text_auto_exclude(uid, text)

\* the steps of global_monitor_loop that no KeyError ends
LoopNext(feed) ==
    \/ LoopTop
    \/ FetchOk(feed)
    \/ FetchFail
    \/ BeginUser
    \/ EndCycle
    \/ DeleteSkip
    \/ DeleteCall
    \/ DeleteOk
    \/ DeleteFail
    \/ DeleteDone
    \/ SendCall
    \/ SendOk
    \/ SendFail
    \/ ProcSkip
    \/ EditCall
    \/ EditOk
    \/ EditFail
    \/ ProcDone
    \/ MenuReturn
    \/ EndPass

NextFor(U, feed) ==
    \/ LoopNext(feed)
    \/ StartMonitoring(U)
    \/ StopMonitoring(U)
    \/ ExcludeAdd(U)
    \/ ExcludeClear(U)

\* one subscriber acts, the fetch returns any list of up to MaxDeals of LoopDeals
Next == NextFor(Subscribers, Snapshots)

Spec == Init /\ [][Next]_vars

(***************************************************************************)
(* The scheduler with two subscribers.  The process starts with the        *)
(* settings the database holds: none, or those a subscriber left behind    *)
(* who was monitoring when the process ended.  A page of the fetch holds   *)
(* one item, and the subscribers of Subscribers set their depth.           *)
(***************************************************************************)
PersistedSettings ==
    {EmptyMap, [u \in {1} |-> [DefaultSettings EXCEPT !.monitoring = TRUE]]}

\* user_settings is filled from the rows of the database; monitor_task = None
FanInit ==
    /\ StateInit
    /\ user_settings \in PersistedSettings
    /\ settings_order = (IF user_settings = EmptyMap THEN <<>> ELSE <<1>>)
    /\ db_settings = [u \in DOMAIN user_settings |-> RowOf(user_settings[u])]
    /\ FilterOff
    /\ InputOff
    /\ FetchOff
    /\ LogOff

FanFeed == {<<DealBase>>, <<DealNoSlug>>}

NextFan ==
    \/ LoopNext(FanFeed)
    \/ LoopKeyError
    \/ StartMonitoring(Users)
    \/ StopMonitoring(Users)
    \/ PagesCmd(Subscribers)
    \/ RemoveUser(Users)

SpecFan == FanInit /\ [][NextFan]_vars

\* Every await of the loop returns (the fetch, the sink calls, the sleep) and the
\* event loop runs a task that is ready: a loop step that stays possible is taken.
LoopStep == LoopNext(FanFeed) \/ LoopKeyError

SpecFanFair == SpecFan /\ WF_vars(LoopStep)

(***************************************************************************)
(* The loop with two subscribers and a page of two deals with different    *)
(* keys: a pass makes up to two sink calls, each of which may fail.        *)
(***************************************************************************)
SinkFeed == {<<DealBase, DealOther>>, <<DealNoSlug>>}

NextSink ==
    \/ LoopNext(SinkFeed)
    \/ StartMonitoring(Users)
    \/ StopMonitoring(Users)

SpecSink == FanInit /\ [][NextSink]_vars

(***************************************************************************)
(* The loop with one subscriber and the history of the message ids kept.   *)
(***************************************************************************)
HandlesInit == LoopInit /\ FilterOff /\ InputOff /\ FetchOff /\ handle_log = HandleLog(TRUE)

NextHandles == NextFor(Subscribers, SinkFeed)

SpecHandles == HandlesInit /\ [][NextHandles]_vars

(***************************************************************************)
(* The loop with one subscriber who changes the filter configuration with  *)
(* /price, /diff and /exclude while the loop runs.  The page holds a deal  *)
(* of $1.000 with spread 1 % and one of $2.000 with spread 2 %.            *)
(***************************************************************************)
CfgFeed == {<<DealBase, DealOther>>, <<DealNoSlug, DealOther>>}

CfgPriceArgs ==
    {<<Some(0), Some(0)>>, <<Some(1500), Some(0)>>, <<Some(0), Some(1500)>>,
     <<None, Some(0)>>}

CfgDiffArgs == {<<Some(1500)>>, <<Some(0)>>}

NextCfg ==
    \/ LoopNext(CfgFeed)
    \/ StartMonitoring(Subscribers)
    \/ StopMonitoring(Subscribers)
    \/ PriceCmd(Subscribers, CfgPriceArgs)
    \/ DiffCmd(Subscribers, CfgDiffArgs)
    \/ ExcludeAdd(Subscribers)
    \/ ExcludeClear(Subscribers)

SpecCfg == Init /\ [][NextCfg]_vars

(***************************************************************************)
(* The configuration handlers on their own: one user, who is an admin,     *)
(* sends commands, presses buttons and sends texts; no loop runs.          *)
(***************************************************************************)
Number == {None, Some(-1000), Some(0), Some(1000), Some(2000)}

PriceArgs == SeqsUpTo(Number, 2) \cup {<<Some(1000), Some(2000), Some(0)>>}

DiffArgs == SeqsUpTo(Number, 1) \cup {<<Some(1000), None>>}

NextInput ==
    \/ CbSet(Subscribers)
    \/ CbAdminMaxPages(Subscribers)
    \/ CbAdminSet(Subscribers)
    \/ AwaitingInput(Subscribers)
    \/ TextAutoExclude(Subscribers)
    \/ PriceCmd(Subscribers, PriceArgs)
    \/ DiffCmd(Subscribers, DiffArgs)
    \/ ExcludeAdd(Subscribers)
    \/ ExcludeClear(Subscribers)

\* a first message is kept: from here on the commands are kept too
MsgStart == [handler |-> "handle_start", uid |-> 1, state |-> None, text |-> TextCommand]

InputInit ==
    /\ LoopInit /\ FilterOff /\ FetchOff /\ LogOff
    /\ last_msg = MsgStart
    /\ admin_settings = [max_pages |-> MAX_PAGES_CODE]

SpecInput == InputInit /\ [][NextInput]_vars

(***************************************************************************)
(* The depth and the limit of the depth: an admin (1) and a second user    *)
(* set their pages by command, by button and text, the admin sets the      *)
(* limit and removes the second user; no loop runs.                        *)
(***************************************************************************)
AdminTexts == {TextSlug, TextOne, TextThree}

NextAdmin ==
    \/ CbSet(Users)
    \/ CbAdminMaxPages(Users)
    \/ \E uid \in Users, text \in AdminTexts : handle_awaiting_input(uid, text)
    \/ PagesCmd(Users)
    \/ SetMaxPagesCmd(Users)
    \/ RemoveUser(Users)

SpecAdmin == InputInit /\ [][NextAdmin]_vars

(***************************************************************************)
(* The handlers that write the configuration, and the table they persist   *)
(* it to: the admin (1) uses every handler, a second user some, and the    *)
(* admin removes the second user.  The loop is started and does not run.   *)
(***************************************************************************)
PersistTexts == {TextOne, TextMinMax}

NextPersist ==
    \/ StartMonitoring(Users)
    \/ StopMonitoring(Users)
    \/ ExcludeAdd(Subscribers)
    \/ ExcludeClear(Subscribers)
    \/ PagesCmd(Users)
    \/ PriceCmd(Subscribers, CfgPriceArgs)
    \/ DiffCmd(Subscribers, CfgDiffArgs)
    \/ CbSet(Subscribers)
    \/ CbAdminMaxPages(Subscribers)
    \/ \E text \in PersistTexts : handle_awaiting_input(1, text)
    \/ \E text \in {TextUrl} : handle_text_auto_exclude(1, text)
    \/ SetMaxPagesCmd(Subscribers)
    \/ RemoveUser(Users)

SpecPersist == Init /\ [][NextPersist]_vars

(***************************************************************************)
(* refresh_menu_for_user(bot, uid), called by the loop after a pass that   *)
(* changed the display and by the handlers, each in its own task.  A call  *)
(* is suspended in bot.delete_message and in bot.send_message, where the   *)
(* other task runs.                                                        *)
(***************************************************************************)
menuFrame ==
    <<allowed_users, displayVars, monitor_task, live_tasks, pc, loopVars, next_id,
      histVars, filterVars, fetchVars, inputVars>>

\* text, keyboard = build_main_menu(uid), which calls ensure_user_settings;
\* old_id = menu_messages.get(uid); the call is suspended in delete_message
\* when old_id is not None, else in send_message
RefreshCall(t, uid) ==
    /\ menu_call[t].pc = "idle"
    /\ menu_next <= MaxMenuId
    /\ user_settings' = ensure_user_settings(user_settings, uid)
    /\ settings_order' = OrderAfterEnsure(uid)
    /\ db_settings' = ensure_persisted(db_settings, user_settings, uid)
    /\ LET old_id == IF Has(menu_messages, uid) THEN Some(menu_messages[uid]) ELSE None
       IN menu_call' =
              [menu_call EXCEPT
                  ![t] = [pc |-> IF IsNone(old_id) THEN "send" ELSE "delete",
                          uid |-> uid, old_id |-> old_id]]
    /\ UNCHANGED <<menuFrame, menu_messages, menu_chat, menu_next>>

\* bot.delete_message(uid, old_id) returned (ok: the message was in the chat
\* and is gone) or raised (except Exception: pass)
MenuDeleteReturn(t, ok) ==
    /\ menu_call[t].pc = "delete"
    /\ ok => Val(menu_call[t].old_id) \in menu_chat
    /\ menu_chat' = IF ok THEN menu_chat \ {Val(menu_call[t].old_id)} ELSE menu_chat
    /\ menu_call' = [menu_call EXCEPT ![t].pc = "send"]
    /\ UNCHANGED <<menuFrame, user_settings, settings_order, db_settings, menu_messages,
                   menu_next>>

\* bot.send_message returned: menu_messages[uid] = sent.message_id
MenuSendOk(t) ==
    /\ menu_call[t].pc = "send"
    /\ menu_chat' = menu_chat \cup {menu_next}
    /\ menu_messages' = Put(menu_messages, menu_call[t].uid, menu_next)
    /\ menu_next' = menu_next + 1
    /\ menu_call' = [menu_call EXCEPT ![t] = NoCall]
    /\ UNCHANGED <<menuFrame, user_settings, settings_order, db_settings>>

\* bot.send_message raised: the call ends with the exception
MenuSendFail(t) ==
    /\ menu_call[t].pc = "send"
    /\ menu_call' = [menu_call EXCEPT ![t] = NoCall]
    /\ UNCHANGED <<menuFrame, user_settings, settings_order, db_settings, menu_messages,
                   menu_chat, menu_next>>

NextMenu ==
    \/ \E t \in MenuTasks : RefreshCall(t, 1)
    \/ \E t \in MenuTasks, ok \in BOOLEAN : MenuDeleteReturn(t, ok)
    \/ \E t \in MenuTasks : MenuSendOk(t)
    \/ \E t \in MenuTasks : MenuSendFail(t)

SpecMenu == Init /\ [][NextMenu]_vars

(***************************************************************************)
(* One fetch on its own: fetch_deals(pages) of the bot or main() of        *)
(* run_top_collections_once.  Both create one task per page, await         *)
(* asyncio.gather and join the page results in page order; the tasks of    *)
(* the script run their request under a semaphore.  The event loop starts  *)
(* the tasks in the order of their creation; the requests return in any    *)
(* order.  Page i, when its request succeeds, gives the two items          *)
(* 2i - 1 and 2i.                                                          *)
(***************************************************************************)
PageItems(i) == <<2 * i - 1, 2 * i>>

Min(a, b) == IF a < b THEN a ELSE b

\* the number of fetch_page_collections calls that have not returned
InFlight == Cardinality({i \in 1..Len(tasks) : tasks[i] = "flight"})

fetchFrame ==
    <<allowed_users, user_settings, settings_order, displayVars, monitor_task,
      live_tasks, pc, loopVars, next_id, histVars, filterVars, menuVars, inputVars, db_settings>>

\* fetch_deals(pages): tasks.append(asyncio.create_task(process())) for i in
\* range(pages), then await asyncio.gather(*tasks)
FetchDealsCall(pages) ==
    /\ fetch_prog = "off"
    /\ fetch_prog' = "bot"
    /\ fetch_pages' = pages
    /\ tasks' = [i \in 1..pages |-> "new"]
    /\ fetch_pc' = "gather"
    /\ UNCHANGED <<fetchFrame, aggregated, output_json>>

\* main(): without cursor.txt it logs an error and returns; else it creates a
\* task for each of all_cursors[:NUM_PAGES], all_cursors being [None] and
\* the lines of the file
MainCall(present, lines, num_pages) ==
    /\ fetch_prog = "off"
    /\ fetch_prog' = "script"
    /\ IF present
       THEN /\ fetch_pages' = Min(num_pages, 1 + lines)
            /\ tasks' = [i \in 1..fetch_pages' |-> "new"]
            /\ fetch_pc' = "gather"
       ELSE /\ fetch_pc' = "no_cursor_file"
            /\ UNCHANGED <<fetch_pages, tasks>>
    /\ UNCHANGED <<fetchFrame, aggregated, output_json>>

\* the first task not yet run begins its request; in the script it first
\* enters async with semaphore, which admits SEMAPHORE_LIMIT tasks
PageStart ==
    /\ fetch_pc = "gather"
    /\ \E i \in 1..Len(tasks) :
          /\ tasks[i] = "new"
          /\ \A j \in 1..(i - 1) : tasks[j] # "new"
          /\ fetch_prog = "script" => InFlight < SEMAPHORE_LIMIT
          /\ tasks' = [tasks EXCEPT ![i] = "flight"]
    /\ UNCHANGED <<fetchFrame, fetch_prog, fetch_pc, fetch_pages, aggregated, output_json>>

\* fetch_page_collections returned the items of page i
PageOk(i) ==
    /\ fetch_pc = "gather"
    /\ i \in 1..Len(tasks)
    /\ tasks[i] = "flight"
    /\ tasks' = [tasks EXCEPT ![i] = "ok"]
    /\ UNCHANGED <<fetchFrame, fetch_prog, fetch_pc, fetch_pages, aggregated, output_json>>

\* variant: the exception of the request leaves the task, and gather raises it
PageFail_Escapes(i) ==
    /\ fetch_pc = "gather"
    /\ i \in 1..Len(tasks)
    /\ tasks[i] = "flight"
    /\ tasks' = [tasks EXCEPT ![i] = "failed"]
    /\ fetch_pc' = "raised"
    /\ UNCHANGED <<fetchFrame, fetch_prog, fetch_pages, aggregated, output_json>>

\* fetch_page_collections raised: except Exception: return []
PageFail(i) ==
    /\ fetch_pc = "gather"
    /\ i \in 1..Len(tasks)
    /\ tasks[i] = "flight"
    /\ tasks' = [tasks EXCEPT ![i] = "failed"]
    /\ UNCHANGED <<fetchFrame, fetch_prog, fetch_pc, fetch_pages, aggregated, output_json>>

\* what the task of page i returned
PageResult(i) == IF tasks[i] = "ok" THEN PageItems(i) ELSE <<>>

\* for page_result in await asyncio.gather(*tasks): aggregated.extend(page_result)
RECURSIVE Extend(_)
Extend(n) == IF n = 0 THEN <<>> ELSE Extend(n - 1) \o PageResult(n)

\* every task is done: the results are joined and the function returns; main()
\* of the script ends after logging the elapsed time, at the comment
\* "Write out the results", and writes no file
Gather ==
    /\ fetch_pc = "gather"
    /\ \A i \in 1..Len(tasks) : tasks[i] \in {"ok", "failed"}
    /\ aggregated' = Extend(Len(tasks))
    /\ fetch_pc' = "done"
    /\ UNCHANGED <<fetchFrame, fetch_prog, fetch_pages, tasks, output_json>>

\* the depths of fetch_deals, the states of cursor.txt and the values of the
\* environment variable NUM_PAGES
BotPages == 1..MAX_PAGES_CODE

CursorLines == {0, 1, 2, MaxCursorLines}

NumPagesValues == {1, NUM_PAGES}

FetchDeals == \E pages \in BotPages : FetchDealsCall(pages)

Main ==
    \E present \in BOOLEAN, lines \in CursorLines, num_pages \in NumPagesValues :
        MainCall(present, lines, num_pages)

PageReturn == \E i \in 1..(MaxCursorLines + 1) : PageOk(i) \/ PageFail(i)

NextFetch ==
    \/ FetchDeals
    \/ Main
    \/ PageStart
    \/ PageReturn
    \/ Gather

SpecFetch == Init /\ [][NextFetch]_vars

(***************************************************************************)
(* filter_deals on its own: the inputs are drawn by the initial state and  *)
(* one step applies the function.                                          *)
(***************************************************************************)
FilterSlugs == {None, Some("a")}

FilterPrices == {None, Some(999), Some(1000), Some(1001)}

\* <<floor, offer>> in 1/100000 ETH: spreads None, None, None, 2.000 %, 2.010 %
FilterFloorOffer ==
    {<<None, Some(9800)>>, <<Some(0), Some(9800)>>, <<Some(10000), None>>,
     <<Some(10000), Some(9800)>>, <<Some(10000), Some(9799)>>}

FilterDeals ==
    {MakeDeal(Some("n"), slug, price, fo[1], fo[2]) :
        slug \in FilterSlugs, price \in FilterPrices, fo \in FilterFloorOffer}

FilterCfgs ==
    {[price_min |-> pr[1], price_max |-> pr[2], diff_max |-> dm, excluded |-> ex] :
        pr \in {<<0, None>>, <<1000, Some(1000)>>},
        dm \in {2000, 3000},
        ex \in {{}, {"a"}}}

FilterInit ==
    /\ LoopInit
    /\ f_pc = "in"
    /\ f_deals \in SeqsUpTo(FilterDeals, MaxFilterDeals)
    /\ f_cfg \in FilterCfgs
    /\ f_out = <<>>
    /\ InputOff
    /\ FetchOff
    /\ LogOff

ApplyFilter ==
    /\ f_pc = "in"
    /\ f_out' = filter_deals(f_deals, f_cfg.price_min, f_cfg.price_max,
                             f_cfg.diff_max, f_cfg.excluded)
    /\ f_pc' = "out"
    /\ UNCHANGED <<allowed_users, user_settings, settings_order, displayVars,
                   monitor_task, live_tasks, pc, loopVars, next_id, histVars, f_deals,
                   f_cfg, fetchVars, inputVars, db_settings, menuVars>>

FilterNext == ApplyFilter

SpecFilter == FilterInit /\ [][FilterNext]_vars

(***************************************************************************)
(* Properties of filter_deals (SpecFilter).                                *)
(***************************************************************************)
Count(seq, d) == Cardinality({i \in 1..Len(seq) : seq[i] = d})

\* C8: whatever the filter config, an item whose USD price or whose spread
\* percent is undefined is not in the output of filter_deals.
C8_FailClosed ==
    f_pc = "out" =>
        \A i \in 1..Len(f_out) :
            ~IsNone(f_out[i].price) /\ ~IsNone(f_out[i].difference_percent)

\* the filter ran on an input with an item that has no price but a spread within
\* the bound, and on one with a price within the bounds but no spread
C8_Witness ==
    /\ f_pc = "out"
    /\ Len(f_deals) = 2
    /\ IsNone(f_deals[1].price)
    /\ ~IsNone(f_deals[1].difference_percent)
    /\ Val(f_deals[1].difference_percent) <= f_cfg.diff_max
    /\ ~IsNone(f_deals[2].price)
    /\ IsNone(f_deals[2].difference_percent)
    /\ SlugOrEmpty(f_deals[1]) \notin f_cfg.excluded
    /\ SlugOrEmpty(f_deals[2]) \notin f_cfg.excluded

\* The three inclusion rules, as the claim words them; "excluded" is the test of
\* the item's slug against the excluded set.
Rule_NotExcluded(d, cfg) == \A s \in cfg.excluded : d.slug # Some(s)

Rule_Price(d, cfg) ==
    /\ d.price # None
    /\ cfg.price_min <= Val(d.price)
    /\ (cfg.price_max = None \/ Val(d.price) <= Val(cfg.price_max))

Rule_Spread(d, cfg) ==
    /\ d.difference_percent # None
    /\ Val(d.difference_percent) <= cfg.diff_max

\* C10: the output of filter_deals has exactly the items of the input that are
\* not excluded, have a defined price with price_min <= price <= price_max and a
\* defined spread with spread <= diff_max, each as often as the input has it.
C10_ExactlyMatching ==
    f_pc = "out" =>
        \A d \in FilterDeals :
            Count(f_out, d) =
                IF Rule_NotExcluded(d, f_cfg) /\ Rule_Price(d, f_cfg) /\ Rule_Spread(d, f_cfg)
                THEN Count(f_deals, d)
                ELSE 0

\* the filter ran with finite bounds on an item priced exactly at both bounds whose
\* spread equals the spread bound, and kept it, and dropped another item
C10_Witness ==
    /\ f_pc = "out"
    /\ f_cfg.price_max # None
    /\ Len(f_deals) = 2
    /\ Len(f_out) = 1
    /\ Val(f_out[1].price) = f_cfg.price_min
    /\ Val(f_out[1].price) = Val(f_cfg.price_max)
    /\ Val(f_out[1].difference_percent) = f_cfg.diff_max

Perms(n) == {p \in [1..n -> 1..n] : \A i, j \in 1..n : p[i] = p[j] => i = j}

Ascending(seq) ==
    \A i, j \in 1..Len(seq) :
        i < j => Val(seq[i].difference_percent) <= Val(seq[j].difference_percent)

FilterOf(deals) ==
    filter_deals(deals, f_cfg.price_min, f_cfg.price_max, f_cfg.diff_max, f_cfg.excluded)

DistinctIdentities(deals) ==
    \A i, j \in 1..Len(deals) : KeyOf(deals[i]) = KeyOf(deals[j]) => i = j

\* C11 as stated: the output is ascending by spread and, the items of the input
\* having distinct identities, it is the same list for every order of the input.
C11_OrderIndependent ==
    (f_pc = "out" /\ DistinctIdentities(f_deals)) =>
        /\ Ascending(f_out)
        /\ \A p \in Perms(Len(f_deals)) :
               FilterOf([i \in 1..Len(f_deals) |-> f_deals[p[i]]]) = f_out

WithSpread(seq, v) == SelectSeq(seq, LAMBDA d : d.difference_percent = Some(v))

KeptOf(seq, out) == SelectSeq(seq, LAMBDA d : \E i \in 1..Len(out) : out[i] = d)

\* C11: the output of filter_deals is ascending by spread percent, and the items
\* of one spread stand in the order in which the input has them.
C11_AscendingTiesInInputOrder ==
    f_pc = "out" =>
        /\ Ascending(f_out)
        /\ \A i \in 1..Len(f_out) :
               LET v == Val(f_out[i].difference_percent)
               IN WithSpread(f_out, v) = WithSpread(KeptOf(f_deals, f_out), v)

\* two items of one spread were kept, the one without a slug (identity "n") first
\* in the input and in the output, the one with slug "a" second
C11_Witness ==
    /\ f_pc = "out"
    /\ Len(f_deals) = 2
    /\ f_out = f_deals
    /\ f_out[1].difference_percent = f_out[2].difference_percent
    /\ f_out[1].slug = None
    /\ f_out[2].slug = Some("a")

(***************************************************************************)
(* Properties of the reconciliation pass (Spec).  A pass is complete when  *)
(* pc = "end": ops is what the pass sent to the sink, pre what it started  *)
(* from, pre.prev the same subscriber's pass of the cycle before.          *)
(***************************************************************************)
PassEnd == pc = "end"

InPass == pc \in {"del", "del_wait", "proc", "send_wait", "edit_wait", "menu", "end"}

OpsOn(kind, key) == {i \in 1..Len(ops) : ops[i].kind = kind /\ ops[i].key = key}

OpsOfKey(key) == {i \in 1..Len(ops) : ops[i].key = key}

Matched(key) ==
    current_deals[CHOOSE i \in 1..Len(current_deals) : current_deals[i].key = key].deal

NoEntry(uid, key) ==
    /\ ~Has(user_deal_messages[uid], key)
    /\ ~Has(last_deal_data[uid], key)
    /\ ~Has(last_deal_text[uid], key)

\* this pass has the snapshot set and the config of the subscriber's pass of the
\* cycle before
SameInput ==
    /\ pre.prev # NoPass
    /\ pre.same_raw
    /\ Val(pre.prev).params = pre.params

\* C1 as stated: a second pass on the same snapshot set and config makes no sink call.
C1_SecondRunSilent == (PassEnd /\ SameInput) => ops = <<>>

\* C1 as amended: a second pass on the same snapshot set and config makes no sink
\* call when no send or edit call of the first pass failed.
C1_SecondRunSilentAfterSuccess ==
    (PassEnd /\ SameInput /\ Val(pre.prev).failed = {}) => ops = <<>>

\* a second pass on an unchanged, non-empty matched set after a first one whose
\* sends and edits all succeeded
C1_Witness ==
    /\ PassEnd
    /\ SameInput
    /\ Val(pre.prev).failed = {}
    /\ current_deals # <<>>
    /\ DOMAIN user_deal_messages[Uid] = CurrentKeys
    /\ ops = <<>>

\* C2: after a pass whose sink calls all succeeded, the keys of the subscriber's
\* display state are exactly the identities of the matched items, and each stored
\* text is the text of the last send or edit call for that identity.
C2_Convergence ==
    (PassEnd /\ AllOk(ops)) =>
        /\ DOMAIN user_deal_messages[Uid] = CurrentKeys
        /\ DOMAIN last_deal_text[Uid] = CurrentKeys
        /\ \A k \in CurrentKeys :
              /\ Has(op_text[Uid], k)
              /\ last_deal_text[Uid][k] = op_text[Uid][k]

\* a pass that deleted one identity and sent or edited another, all successfully
C2_Witness ==
    /\ PassEnd
    /\ AllOk(ops)
    /\ \E i, j \in 1..Len(ops) : ops[i].kind = "delete" /\ ops[j].kind # "delete"

\* C3: an identity of the display state that is not matched in this pass gets exactly
\* one delete call, with its stored handle, and leaves the display state; an identity
\* that is still matched (or was not displayed) gets no delete call.
C3_DeleteOnDisappearance ==
    PassEnd =>
        /\ \A x \in DOMAIN pre.msgs :
              IF x \notin CurrentKeys
              THEN /\ Cardinality(OpsOn("delete", x)) = 1
                   /\ \A i \in OpsOn("delete", x) : ops[i].handle = pre.msgs[x]
                   /\ NoEntry(Uid, x)
              ELSE OpsOn("delete", x) = {}
        /\ \A i \in 1..Len(ops) : ops[i].kind = "delete" => ops[i].key \in DOMAIN pre.msgs

\* a pass that started with one displayed identity that is gone and one that is
\* still matched
C3_Witness ==
    /\ PassEnd
    /\ \E x, y \in DOMAIN pre.msgs : x \notin CurrentKeys /\ y \in CurrentKeys

Rank(kind) == IF kind = "delete" THEN 0 ELSE IF kind = "send" THEN 1 ELSE 2

FirstPos(key) ==
    LET out == filter_deals(raw_deals, pre.params.price_min, pre.params.price_max,
                            pre.params.diff_max, pre.params.excluded)
    IN CHOOSE i \in 1..Len(out) :
          /\ KeyOf(out[i]) = Some(key)
          /\ \A j \in 1..(i - 1) : KeyOf(out[j]) # Some(key)

C5_UpdateIffTextDiffers ==
    PassEnd =>
        \A k \in DOMAIN pre.msgs \cap CurrentKeys :
            IF pre.text[k] # format_deal(Matched(k))
            THEN /\ Cardinality(OpsOn("edit", k)) = 1
                 /\ OpsOfKey(k) = OpsOn("edit", k)
                 /\ \A i \in OpsOn("edit", k) :
                       /\ ops[i].handle = pre.msgs[k]
                       /\ ops[i].text = format_deal(Matched(k))
            ELSE /\ OpsOfKey(k) = {}
                 /\ user_deal_messages[Uid][k] = pre.msgs[k]
                 /\ last_deal_data[Uid][k] = pre.data[k]
                 /\ last_deal_text[Uid][k] = pre.text[k]

\* a pass over a displayed identity whose item changed but renders as before
C5_Witness ==
    /\ PassEnd
    /\ \E k \in DOMAIN pre.msgs \cap CurrentKeys :
          /\ pre.text[k] = format_deal(Matched(k))
          /\ pre.data[k] # Matched(k)

\* C6: an identity whose send or edit call failed has no entry after the pass, and an
\* identity whose call failed in the pass of the cycle before and that is matched
\* again gets a send call.
C6_FailedCallRetried ==
    PassEnd =>
        /\ \A i \in 1..Len(ops) :
              (ops[i].kind # "delete" /\ ~ops[i].ok) => NoEntry(Uid, ops[i].key)
        /\ pre.prev # NoPass =>
              \A k \in Val(pre.prev).failed \cap CurrentKeys : OpsOn("send", k) # {}

\* a pass that sends again, successfully, what failed in the pass before
C6_Witness ==
    /\ PassEnd
    /\ pre.prev # NoPass
    /\ \E k \in Val(pre.prev).failed \cap CurrentKeys :
          \E i \in OpsOn("send", k) : ops[i].ok

\* C7: an identity whose delete call was made, failed or not, has no entry after the
\* pass, and no message id is passed to delete twice.
C7_DeleteAtMostOnce ==
    /\ PassEnd =>
          \A i \in 1..Len(ops) : ops[i].kind = "delete" => NoEntry(Uid, ops[i].key)
    /\ \A h \in DOMAIN delete_count : delete_count[h] <= 1

\* a pass with a failed delete call
C7_Witness ==
    /\ PassEnd
    /\ \E i \in 1..Len(ops) : ops[i].kind = "delete" /\ ~ops[i].ok

\* C9: no item whose tracking key is in the excluded set the filter was given is in
\* the matched items of the pass, and no send or edit call is made for such a key.
C9_ExclusionSupersedes ==
    InPass =>
        /\ \A i \in 1..Len(current_deals) : current_deals[i].key \notin pre.params.excluded
        /\ \A i \in 1..Len(ops) :
              ops[i].kind # "delete" => ops[i].key \notin pre.params.excluded

(***************************************************************************)
(* Items without a slug (Spec).                                            *)
(***************************************************************************)
\* C12 as stated: an item without a slug is never among the items a pass
\* reconciles, and no display state entry holds such an item.
C12_NoSlugNotReconciled ==
    /\ InPass => \A i \in 1..Len(current_deals) : ~Falsy(current_deals[i].deal.slug)
    /\ \A u \in DOMAIN last_deal_data :
           \A k \in DOMAIN last_deal_data[u] : ~Falsy(last_deal_data[u][k].slug)

\* what the pass filtered: the fetched items under the subscriber's rules
PassFiltered ==
    filter_deals(raw_deals, pre.params.price_min, pre.params.price_max,
                 pre.params.diff_max, pre.params.excluded)

\* the slug, else the link, else the collection name
SlugLinkOrName(d) ==
    IF ~Falsy(d.slug) THEN Val(d.slug)
    ELSE IF d.link # None THEN Val(d.link)
    ELSE d.collection

\* C12: every item that passes the filter is reconciled, under its slug or, when
\* the slug is absent, its link or else its collection name: an item without slug
\* is among the matched items of the pass under that key, and a display state
\* entry is stored under no other key.
C12_TrackedUnderFallbackKey ==
    /\ InPass =>
           \A j \in 1..Len(PassFiltered) :
               \E i \in 1..Len(current_deals) :
                   current_deals[i].key = SlugLinkOrName(PassFiltered[j])
    /\ \A u \in DOMAIN last_deal_data :
           \A k \in DOMAIN last_deal_data[u] : k = SlugLinkOrName(last_deal_data[u][k])

\* a pass sent a message for an item without slug and stored it under its name
C12_Witness ==
    /\ PassEnd
    /\ Has(last_deal_data[Uid], "a")
    /\ last_deal_data[Uid]["a"].slug = None
    /\ \E i \in 1..Len(ops) : ops[i].kind = "send" /\ ops[i].key = "a" /\ ops[i].ok

(***************************************************************************)
(* Properties of the scheduler (SpecFan).                                  *)
(***************************************************************************)
LoopAlive == live_tasks >= 1 /\ pc \notin {"idle", "crashed"}

\* C13: at no time is more than one global_monitor_loop task alive, whatever
\* the order of the subscribers' start_monitoring and stop_monitoring calls and
\* the loop's own end.
C13_AtMostOneLoop == live_tasks <= 1

\* the second subscriber activated while the loop, begun for the first one alone,
\* was suspended in a send: one task
C13_Witness ==
    /\ pc = "send_wait"
    /\ Len(active_users) = 1
    /\ ActiveSet = Users
    /\ live_tasks = 1

\* C14: whenever a subscriber has monitoring set, a polling loop task is alive.
C14_ActiveImpliesLoop == ActiveSet # {} => LoopAlive

\* C15: from a state in which no subscriber has monitoring set, either a
\* subscriber activates again or the loop ends and monitor_task becomes None.
C15_EventuallyIdle == (ActiveSet = {}) ~> (monitor_task = "None" \/ ActiveSet # {})

\* C16: after a fetch that raised, the loop is in the subscriber passes of that
\* cycle or in the sleep that ends it (or was ended by the KeyError of a removed
\* subscriber), with an empty fetched set: every pass of the cycle has no matched
\* item, calls delete for every key the subscriber had
\* displayed and ends with an empty display state.
C16_FetchFailureIsEmptySnapshot ==
    ~fetch_ok =>
        /\ raw_deals = <<>>
        /\ ui >= 1
        /\ pc \in {"user", "sleep"} \/ InPass \/ (pc = "crashed" /\ ~Has(user_settings, Uid))
        /\ InPass => current_deals = <<>>
        /\ PassEnd =>
               /\ \A key \in DOMAIN pre.msgs : OpsOn("delete", key) # {}
               /\ user_deal_messages[Uid] = EmptyMap
               /\ last_deal_data[Uid] = EmptyMap
               /\ last_deal_text[Uid] = EmptyMap

\* the fetch of the cycle raised; a subscriber that had a message displayed got
\* it deleted, and the second subscriber's pass completed after the first one's
C16_Witness ==
    /\ ~fetch_ok
    /\ PassEnd
    /\ ui = 2
    /\ DOMAIN pre.msgs # {}
    /\ \E i \in 1..Len(ops) : ops[i].kind = "delete" /\ ops[i].ok

\* the items of the fetched set that lie within the first n pages
WithinDepth(n) == {raw_deals[j] : j \in {k \in 1..Len(raw_deals) : raw_page[k] <= n}}

\* C18: the matched items of a subscriber's pass are items of the pages within
\* the subscriber's own depth.
C18_OnlyOwnDepth ==
    InPass => \A i \in 1..Len(current_deals) : current_deals[i].deal \in WithinDepth(pre.pages)

\* C19: throughout a cycle one fetch_deals call has been made, with the largest
\* pages value of the subscribers that were active when the cycle began, and
\* the fetched items come from pages up to that depth.
C19_OneFetchAtMaxDepth ==
    (pc \in {"fetch", "user", "sleep"} \/ InPass) =>
        /\ Len(fetch_log) = 1
        /\ DOMAIN start_pages = {active_users[i] : i \in 1..Len(active_users)}
        /\ \E u \in DOMAIN start_pages : start_pages[u] = fetch_log[1]
        /\ \A u \in DOMAIN start_pages : start_pages[u] <= fetch_log[1]
        /\ pc # "fetch" => \A j \in 1..Len(raw_page) : raw_page[j] <= fetch_log[1]

\* the second of two subscribers is reconciled in a cycle whose fetch had the
\* depth of the second, which is larger than that of the first
C19_Witness ==
    /\ PassEnd
    /\ ui = 2
    /\ Len(active_users) = 2
    /\ start_pages[active_users[1]] < start_pages[active_users[2]]
    /\ fetch_log = <<start_pages[active_users[2]]>>
    /\ Len(raw_deals) = 2

\* the three dicts hold the same for subscriber u before and after the step
DisplayKept(u) ==
    /\ Has(user_deal_messages, u)' = Has(user_deal_messages, u)
    /\ Has(user_deal_messages, u) => user_deal_messages'[u] = user_deal_messages[u]
    /\ Has(last_deal_data, u)' = Has(last_deal_data, u)
    /\ Has(last_deal_data, u) => last_deal_data'[u] = last_deal_data[u]
    /\ Has(last_deal_text, u)' = Has(last_deal_text, u)
    /\ Has(last_deal_text, u) => last_deal_text'[u] = last_deal_text[u]

\* the loop is at or in the pass of subscriber Uid
AtPass == InPass \/ (pc = "user" /\ ui <= Len(active_users))

\* every sink call of the pass went to the chat of the pass's subscriber, and a
\* delete or an edit named the handle that subscriber had for the key
OwnCalls ==
    InPass =>
        \A i \in 1..Len(ops) :
            /\ ops[i].chat = Uid
            /\ ops[i].kind # "send" =>
                   Has(pre.msgs, ops[i].key) /\ ops[i].handle = pre.msgs[ops[i].key]

\* C20: a step taken while the loop is at the pass of subscriber A leaves the
\* display state of every other subscriber as it is, and every sink call of the
\* pass uses A's chat and, for a delete or an edit, A's own handle of the key.
C20_FrameOfPass ==
    /\ []OwnCalls
    /\ [][AtPass => \A u \in Users \ {Uid} : DisplayKept(u)]_vars

\* a pass of one subscriber deleted or edited a message while the other
\* subscriber had a message displayed
C20_Witness ==
    /\ PassEnd
    /\ \E i \in 1..Len(ops) : ops[i].kind # "send" /\ ops[i].ok
    /\ \E u \in Users \ {Uid} :
           Has(user_deal_messages, u) /\ user_deal_messages[u] # EmptyMap

\* C17: no exception leaves global_monitor_loop while it processes the
\* subscribers of a cycle: the task never ends with monitor_task still set.
C17_NoExceptionEscapes == pc # "crashed"

\* what dict m holds for subscriber u, a missing entry read as an empty one
DisplayOf(m, u) == IF Has(m, u) THEN m[u] ELSE EmptyMap

\* subscriber u has a message handle, deal data or a text in the display dicts
HasDisplay(u) ==
    \/ DisplayOf(user_deal_messages, u) # EmptyMap
    \/ DisplayOf(last_deal_data, u) # EmptyMap
    \/ DisplayOf(last_deal_text, u) # EmptyMap

\* the handles, data and texts held for subscriber u are the same after the step
DisplayContentKept(u) ==
    /\ DisplayOf(user_deal_messages, u)' = DisplayOf(user_deal_messages, u)
    /\ DisplayOf(last_deal_data, u)' = DisplayOf(last_deal_data, u)
    /\ DisplayOf(last_deal_text, u)' = DisplayOf(last_deal_text, u)

\* C21: no step outside the own pass of a subscriber that is allowed (not
\* removed) and not monitoring changes the display state of that subscriber:
\* deactivation leaves the handles, data and texts of the subscriber as the
\* last reconciliation left them.
C21_DeactivatedDisplayKept ==
    [][\A u \in allowed_users :
          (/\ Has(user_settings, u)
           /\ ~user_settings[u].monitoring
           /\ ~(AtPass /\ Uid = u)) => DisplayContentKept(u)]_vars

\* C22: a removed user has no handle, data or text left in the display dicts
\* and the loop is not in a pass of a removed user.
C22_RemovedHasNoDisplay ==
    /\ \A u \in Users \ allowed_users : ~HasDisplay(u)
    /\ InPass => Uid \in allowed_users

\* the loop waits for a sink call to return
SinkWait == pc \in {"del_wait", "send_wait", "edit_wait"}

\* every key of the pass that called for a delete or a send had the call made
AllAttempted ==
    /\ \A k \in DOMAIN pre.msgs \ CurrentKeys : OpsOn("delete", k) # {}
    /\ \A k \in CurrentKeys \ DOMAIN pre.msgs : OpsOn("send", k) # {}

\* C26: a sink call that returns, failed or not, leaves the loop task alive
\* in the same pass with the same subscribers and deals still to go, and at the
\* end of a pass every key that called for a delete or a send had its call
\* made, whatever calls failed before it.
C26_FailureNotFatal ==
    /\ [](PassEnd => AllAttempted)
    /\ [][SinkWait =>
             /\ pc' \in {"del", "proc"} \cup {pc}
             /\ live_tasks' = live_tasks
             /\ ui' = ui
             /\ active_users' = active_users
             /\ current_deals' = current_deals]_vars

\* the pass of the second subscriber of a cycle made a call after a call of
\* the same pass had failed, and a call of the first subscriber's pass had
\* failed too
C26_Witness ==
    /\ PassEnd
    /\ ui = 2
    /\ active_users[1] \in Subscribers
    /\ active_users[1] \in passed
    /\ last_in[active_users[1]] # NoPass
    /\ last_in[active_users[1]][1].failed # {}
    /\ \E i, j \in 1..Len(ops) : i < j /\ ~ops[i].ok

\* the subscribers of the list the cycle goes through
InCycle == {active_users[i] : i \in 1..Len(active_users)}

\* C27: the subscribers reconciled by a cycle are those that were active when
\* the cycle computed its list, whether or not they deactivated while the loop
\* was suspended in the cycle, and the list a cycle computes holds exactly the
\* subscribers active at that moment, so a deactivated one is not in the next.
C27_EffectAtCycleBoundary ==
    /\ [](pc = "sleep" => passed = DOMAIN start_pages)
    /\ [][(pc # "fetch" /\ pc' = "fetch") => InCycle' = ActiveSet']_vars

\* the pass of a subscriber begins after the subscriber deactivated during the
\* fetch of the cycle
C27_Witness ==
    /\ pc = "del"
    /\ ops = <<>>
    /\ ci = 0
    /\ current_deals # <<>>
    /\ Uid \in allowed_users
    /\ Has(user_settings, Uid)
    /\ ~user_settings[Uid].monitoring

\* the pass of subscriber Uid has just begun: no await since BeginUser
PassBegun == pc = "del" /\ ci = 0 /\ ops = <<>> /\ pre # <<>> /\ "params" \in DOMAIN pre

\* C23: the pass of a subscriber filters the snapshot with the configuration
\* the subscriber has when the pass begins, which holds every price, spread and
\* exclusion change completed before the cycle started, and the list a cycle
\* computes holds every active subscriber and no deactivated one.
C23_CyclesUseCurrentConfig ==
    /\ [](PassBegun =>
            LET cfg == user_settings[Uid]
            IN /\ pre.params = FilterParams(cfg)
               /\ current_deals =
                      BuildCurrent(<<>>, filter_deals(raw_deals, cfg.price_min,
                                                      cfg.price_max, cfg.diff_max,
                                                      cfg.excluded)))
    /\ [][(pc # "fetch" /\ pc' = "fetch") =>
             \A u \in DOMAIN user_settings' :
                 user_settings'[u].monitoring <=> (u \in InCycle')]_vars

\* a pass begins with price bounds, a spread bound and an exclusion that are
\* not the defaults, and the filter with them drops a deal of the snapshot
C23_Witness ==
    /\ PassBegun
    /\ user_settings[Uid].price_min # DefaultSettings.price_min
    /\ user_settings[Uid].diff_max # DefaultSettings.diff_max
    /\ user_settings[Uid].excluded # {}
    /\ Len(current_deals) < Len(raw_deals)

\* C24: every stored configuration has a minimum price >= 0 that is not above
\* the maximum price (no maximum when price_max is inf) and a spread bound > 0.
C24_StoredBoundsValid ==
    \A u \in DOMAIN user_settings :
        LET cfg == user_settings[u]
        IN /\ cfg.price_min >= 0
           /\ IsNone(cfg.price_max) \/ cfg.price_min <= Val(cfg.price_max)
           /\ cfg.diff_max > 0

\* extract_slug(text) or text
SlugOf(text) == IF IsNone(text.url) THEN text.raw ELSE Val(text.url)

\* C30: a text that a user sends while the awaiting state of the user is
\* "exclude" leaves the awaiting state cleared and, when the text is "clear",
\* the excluded set empty, else the slug of the text in the excluded set.
C30_ExcludeInputStored ==
    [][(/\ last_msg' # last_msg
        /\ last_msg'.state = Some("exclude")
        /\ ~last_msg'.text.cmd) =>
           LET cfg == user_settings'[last_msg'.uid]
           IN /\ cfg.awaiting = None
              /\ IF last_msg'.text.clear THEN cfg.excluded = {}
                 ELSE SlugOf(last_msg'.text) \in cfg.excluded]_vars

\* C25: when main() of the script, run with cursor.txt present, has ended,
\* output.json holds the collected results.
C25_ResultsWritten ==
    (fetch_prog = "script" /\ fetch_pc = "done") => output_json = Some(aggregated)

\* C28: at no time are more page requests of one fetch in flight than the
\* limit the script states.
C28_InFlightWithinStatedLimit == InFlight <= STATED_LIMIT

\* the pages of the fetch whose request succeeded
OkPages == {i \in 1..Len(tasks) : tasks[i] = "ok"}

\* the items of sequence seq
ItemsOf(seq) == {seq[k] : k \in 1..Len(seq)}

\* C29: a fetch whose page requests have all returned ends by returning, and
\* what it returns holds each item of each page whose request succeeded once,
\* pages in page order and the items of a page in the order of the page, and
\* nothing else.
C29_FailedPageOnlyIsEmpty ==
    /\ fetch_pc # "raised"
    /\ fetch_pc = "done" =>
          /\ ItemsOf(aggregated) = UNION {ItemsOf(PageItems(i)) : i \in OkPages}
          /\ \A k \in 1..(Len(aggregated) - 1) : aggregated[k] < aggregated[k + 1]

\* a fetch of three pages or more returned with a failed page between two
\* pages that succeeded
C29_Witness ==
    /\ fetch_pc = "done"
    /\ \E i, j, k \in 1..Len(tasks) :
          /\ i < j
          /\ j < k
          /\ tasks[i] = "ok"
          /\ tasks[j] = "failed"
          /\ tasks[k] = "ok"

\* the loop is between two passes: before the first, after the last, or
\* from the end of one to the start of the next
AtBoundary == pc \in {"user", "end", "sleep"}

\* the keys dict m holds for subscriber u
KeysOf(m, u) == DOMAIN DisplayOf(m, u)

\* C32: between the passes of a cycle the three display dicts hold the same
\* keys for every subscriber, whatever sink calls failed.
C32_SameKeySets ==
    AtBoundary =>
        \A u \in Users :
            /\ KeysOf(user_deal_messages, u) = KeysOf(last_deal_data, u)
            /\ KeysOf(user_deal_messages, u) = KeysOf(last_deal_text, u)

\* a pass ends with a key displayed after a send, an edit and a delete of the
\* pass failed or succeeded in a mix
C32_Witness ==
    /\ PassEnd
    /\ KeysOf(user_deal_messages, Uid) # {}
    /\ \E i \in 1..Len(ops) : ~ops[i].ok
    /\ \E i \in 1..Len(ops) : ops[i].ok

\* message id h is the handle the display state has for some subscriber and key
Held(h) ==
    \E u \in DOMAIN user_deal_messages :
        \E k \in DOMAIN user_deal_messages[u] : user_deal_messages[u][k] = h

\* C33: every message the loop has sent is the handle of its key in the display
\* state or was passed to a delete call: no handle is dropped without an
\* attempt to delete the message, so no subscriber has two messages for one key.
C33_NoHandleDropped ==
    \A h \in 1..(next_id - 1) : Held(h) \/ delete_count[h] >= 1

\* C34: the message id of a delete or an edit call for subscriber u and key k
\* is the id the last successful send for u and k returned, and it is not an
\* id whose delete call has returned or whose edit has failed before.
C34_HandleOfLastCreate ==
    (handle_log.on /\ pc \in {"del_wait", "edit_wait"}) =>
        /\ Has(handle_log.created[Uid], pending.key)
        /\ pending.message_id = handle_log.created[Uid][pending.key]
        /\ pending.message_id \notin handle_log.spent

\* an edit or a delete is called for a key whose earlier message was deleted
\* or had a failed edit and that was sent anew since
C34_Witness ==
    /\ pc \in {"del_wait", "edit_wait"}
    /\ handle_log.spent # {}
    /\ pending.message_id > 1

\* C31: every text that is no command, sent by an allowed user whose awaiting
\* state is set and handled by handle_awaiting_input, leaves the awaiting state
\* of the user cleared, whatever the state and whether the text is valid.
C31_AwaitingCleared ==
    [][(/\ last_msg' # last_msg
        /\ last_msg'.handler = "handle_awaiting_input"
        /\ last_msg'.uid \in allowed_users
        /\ ~IsNone(last_msg'.state)
        /\ ~last_msg'.text.cmd) =>
           IsNone(user_settings'[last_msg'.uid].awaiting)]_vars

\* the configuration a handler of u works on: user_settings[u] after
\* ensure_user_settings
CfgOf(settings, u) == ensure_user_settings(settings, u)[u]

PriceInput(msg) ==
    \/ msg.handler = "handle_price_cmd"
    \/ msg.handler = "handle_awaiting_input" /\ msg.state = Some("price")

DiffInput(msg) ==
    \/ msg.handler = "handle_diff_cmd"
    \/ msg.handler = "handle_awaiting_input" /\ msg.state = Some("diff")

PagesInput(msg) == msg.handler = "handle_awaiting_input" /\ msg.state = Some("pages")

\* a negative minimum, not two values, or a value that is no number
BadPrice(nums) ==
    \/ Len(nums) # 2
    \/ \E i \in 1..Len(nums) : IsNone(nums[i])
    \/ Val(nums[1]) < 0

\* the values of a price input that count: the first two of a command, all
\* of a text
PriceValues(msg) ==
    IF msg.handler = "handle_price_cmd" /\ Len(msg.text.nums) > 2
    THEN SubSeq(msg.text.nums, 1, 2)
    ELSE msg.text.nums

\* the value of a spread input: the first of a command, the whole text else
SpreadValue(msg) ==
    IF msg.handler = "handle_diff_cmd" /\ Len(msg.text.nums) >= 1
    THEN msg.text.nums[1]
    ELSE FloatOf(msg.text)

BadSpread(v) == IsNone(v) \/ Val(v) <= 0

\* the step handles a message msg of a user u whose configuration before
\* it is old and after it is new
RejectedKept(msg, old, new, values) ==
    /\ (PriceInput(msg) /\ BadPrice(values)) =>
           (new.price_min = old.price_min /\ new.price_max = old.price_max)
    /\ (DiffInput(msg) /\ BadSpread(SpreadValue(msg))) => new.diff_max = old.diff_max
    /\ (PagesInput(msg) /\ IsNone(msg.text.int)) => new.pages = old.pages

C35_PagesWithinLimits ==
    /\ 1 <= admin_settings.max_pages
    /\ admin_settings.max_pages <= MAX_PAGES_CODE
    /\ \A u \in DOMAIN user_settings :
           /\ 1 <= user_settings[u].pages
           /\ user_settings[u].pages <= admin_settings.max_pages

\* the limit was lowered to 1, and the text "3" of user 2 in the awaiting
\* state pages left the pages of user 2 at 1
C35_Witness ==
    /\ admin_settings.max_pages = 1
    /\ last_msg.handler = "handle_awaiting_input"
    /\ last_msg.uid = 2
    /\ last_msg.state = Some("pages")
    /\ last_msg.text = TextThree
    /\ Has(user_settings, 2)
    /\ user_settings[2].pages = 1
    /\ IsNone(user_settings[2].awaiting)

\* C36: user_settings has no key outside allowed_users: a uid that is not
\* allowed creates and changes no configuration.
C36_ConfigOnlyForAllowed == DOMAIN user_settings \subseteq allowed_users

\* every configuration has a row and every row a configuration, and the row
\* holds the pages, price_min, price_max, diff_max, excluded and monitoring
\* of the configuration
RowsMatch ==
    /\ DOMAIN db_settings = DOMAIN user_settings
    /\ \A u \in DOMAIN user_settings :
           ConfigOfRow(db_settings[u]) = [user_settings[u] EXCEPT !.awaiting = None]

\* the step that takes a uid out of allowed_users leaves it neither a
\* configuration nor a row
RemovedGone ==
    \A u \in allowed_users \ allowed_users' :
        ~Has(user_settings', u) /\ ~Has(db_settings', u)

\* C37: after every step of a handler the persisted row of each subscriber
\* equals its configuration in memory in pages, price_min, price_max, diff_max,
\* excluded and monitoring, and the removal of a subscriber leaves neither
\* its configuration nor its row.
C37_PersistedEqualsMemory == []RowsMatch /\ [][RemovedGone]_vars

\* user 2 was removed, and the admin has set every persisted field to a value
\* that is not the default
C37_Witness ==
    /\ 2 \notin allowed_users
    /\ ~Has(db_settings, 2)
    /\ Has(user_settings, 1)
    /\ user_settings[1].monitoring
    /\ user_settings[1].excluded # {}
    /\ user_settings[1].price_min > 0
    /\ user_settings[1].diff_max # DefaultSettings.diff_max
    /\ user_settings[1].pages > 1

\* C39: every menu message that was sent to a user and is not the one
\* recorded in menu_messages for the user has been deleted: the user has at
\* most one live menu message, also when two calls of refresh_menu_for_user for
\* the user interleave.
C39_OneLiveMenu ==
    \A id \in menu_chat : Has(menu_messages, 1) /\ menu_messages[1] = id

====
